---- MODULE Spec2Model ----
(***************************************************************************)
(* Defaulting of a DatadogAgent (api v1alpha1): DefaultDatadogAgent,       *)
(* FeatureOverride and the per-subtree defaulting functions.               *)
(*                                                                         *)
(* Encoding.  A Go pointer field (or a string field whose "" is the unset  *)
(* sentinel) is a set: {} is nil / "", {v} is a pointer to v.  A Go struct *)
(* is a record.  A function that mutates its argument in place and returns *)
(* an override is an operator returning [n |-> the argument after the      *)
(* call, ov |-> the returned override, ok |-> FALSE iff the call panics on *)
(* a nil dereference].                                                     *)
(***************************************************************************)
EXTENDS Integers, Sequences, FiniteSets, TLC

\* ------------------------------------------------------------------ bounds
\* Number of consecutive DefaultDatadogAgent calls made on the same object.
MaxRuns == 2

\* ---------------------------------------------------------------- pointers
None == {}
Some(v) == {v}
Deref(p) == CHOOSE x \in p : TRUE

\* apiutils.BoolValue: false for a nil pointer.
BoolValue(p) == p = {TRUE}
NewBoolPointer(b) == {b}
NewStringPointer(s) == {s}
NewInt32Pointer(i) == {i}

\* Fields of node that are unset and have a default in dflt get that default.
FillUnset(node, dflt) ==
  [f \in DOMAIN node |-> IF f \in DOMAIN dflt /\ node[f] = None THEN dflt[f] ELSE node[f]]

\* The override after the same pass: the fields of rec that were unset in
\* node (before the pass) are copied from rec into ov.
Recorded(ov, node, rec) ==
  [f \in DOMAIN ov |-> IF f \in DOMAIN rec /\ node[f] = None THEN rec[f] ELSE ov[f]]

\* ------------------------------------------------------- default constants
defaultLogLevel == "INFO"
defaultAgentImageTag == "7.28.0"
defaultClusterAgentImageTag == "1.12.0"
defaultAgentImageName == "agent"
defaultClusterAgentImageName == "cluster-agent"
defaultCollectEvents == FALSE
defaultLeaderElection == FALSE
defaultDockerSocketPath == "/var/run/docker.sock"
defaultDogstatsdOriginDetection == FALSE
defaultUseDogStatsDSocketVolume == FALSE
defaultHostDogstatsdSocketName == "statsd.sock"
defaultHostDogstatsdSocketPath == "/var/run/datadog"
defaultAgentEnabled == TRUE
defaultClusterAgentEnabled == TRUE
defaultClusterChecksRunnerEnabled == FALSE
defaultApmEnabled == FALSE
defaultApmHostPort == 8126
defaultExternalMetricsEnabled == FALSE
defaultSystemProbeEnabled == FALSE
defaultSystemProbeOOMKillEnabled == FALSE
defaultSystemProbeTCPQueueLengthEnabled == FALSE
defaultSystemProbeConntrackEnabled == FALSE
defaultSystemProbeCollectDNSStats == FALSE
defaultSystemProbeBPFDebugEnabled == FALSE
defaultSystemProbeSecCompRootPath == "/var/lib/kubelet/seccomp"
defaultAppArmorProfileName == "unconfined"
DefaultSeccompProfileName == "localhost/system-probe"
defaultSecurityRuntimeEnabled == FALSE
defaultSecurityComplianceEnabled == FALSE
defaultSecuritySyscallMonitorEnabled == FALSE
defaultHostApmSocketName == "apm.sock"
defaultHostApmSocketPath == "/var/run/datadog"
defaultLogEnabled == FALSE
defaultLogsConfigContainerCollectAll == FALSE
defaultLogsContainerCollectUsingFiles == TRUE
defaultContainerLogsPath == "/var/lib/docker/containers"
defaultPodLogsPath == "/var/log/pods"
defaultContainerSymlinksPath == "/var/log/containers"
defaultLogsTempStoragePath == "/var/lib/datadog-agent/logs"
defaultLogsOpenFilesLimit == 100
defaultProcessEnabled == FALSE
defaultProcessCollectionEnabled == FALSE
defaultOrchestratorExplorerEnabled == TRUE
defaultOrchestratorExplorerContainerScrubbingEnabled == TRUE
defaultMetricsProviderPort == 8443
defaultClusterChecksEnabled == FALSE
defaultKubeStateMetricsCoreEnabled == FALSE
defaultPrometheusScrapeEnabled == FALSE
defaultPrometheusScrapeServiceEndpoints == FALSE
defaultRollingUpdateMaxUnavailable == "10%"
defaultUpdateStrategy == "RollingUpdate"
defaultRollingUpdateMaxPodSchedulerFailure == "10%"
defaultRollingUpdateMaxParallelPodCreation == 250
defaultRollingUpdateSlowStartIntervalDuration == "1m"
defaultRollingUpdateSlowStartAdditiveIncrease == "5"
defaultReconcileFrequency == "10s"
defaultRbacCreate == TRUE
defaultMutateUnlabelled == FALSE
DefaultAdmissionServiceName == "datadog-admission-controller"
defaultAdmissionControllerEnabled == FALSE
defaultLivenessProbeInitialDelaySeconds == 15
defaultLivenessProbePeriodSeconds == 15
defaultLivenessProbeTimeoutSeconds == 5
defaultLivenessProbeSuccessThreshold == 1
defaultLivenessProbeFailureThreshold == 6
defaultAgentHealthPort == 5555
defaultLivenessProbeHTTPPath == "/live"
defaultReadinessProbeInitialDelaySeconds == 15
defaultReadinessProbePeriodSeconds == 15
defaultReadinessProbeTimeoutSeconds == 5
defaultReadinessProbeSuccessThreshold == 1
defaultReadinessProbeFailureThreshold == 6
defaultReadinessProbeHTTPPath == "/ready"
defaultImagePullPolicy == "IfNotPresent"

\* ------------------------------------------------------------ empty structs
EmptyImageConfig ==
  [Name |-> None, Tag |-> None, PullPolicy |-> None, PullSecrets |-> None]
EmptyRbacConfig == [Create |-> None]
EmptyNetworkPolicySpec == [Create |-> None]
EmptyCRISocketConfig == [DockerSocketPath |-> None]
EmptyDSDUnixDomainSocketSpec == [Enabled |-> None, HostFilepath |-> None]
EmptyDogstatsdConfig == [DogstatsdOriginDetection |-> None, UnixDomainSocket |-> None]
EmptyNodeContainerConfig ==
  [LogLevel |-> None, Resources |-> None, LivenessProbe |-> None,
   ReadinessProbe |-> None, HealthPort |-> None]
EmptyNodeAgentSpec ==
  [ContainerConfig |-> EmptyNodeContainerConfig, CollectEvents |-> None,
   LeaderElection |-> None, CriSocket |-> None, Dogstatsd |-> None,
   PodLabelsAsTags |-> None, PodAnnotationsAsTags |-> None, Tags |-> None]
EmptyRollingUpdate ==
  [MaxUnavailable |-> None, MaxPodSchedulerFailure |-> None,
   MaxParallelPodCreation |-> None, SlowStartIntervalDuration |-> None,
   SlowStartAdditiveIncrease |-> None]
EmptyDaemonSetDeploymentStrategy ==
  [UpdateStrategyType |-> None, RollingUpdate |-> EmptyRollingUpdate,
   Canary |-> None, ReconcileFrequency |-> None]
EmptyAPMUnixDomainSocketSpec == [Enabled |-> None, HostFilepath |-> None]
EmptyAPMContainerConfig == [LivenessProbe |-> None]
EmptyAPMSpec ==
  [Enabled |-> None, HostPort |-> None, ContainerConfig |-> EmptyAPMContainerConfig,
   UnixDomainSocket |-> None]
EmptySystemProbeSpec ==
  [Enabled |-> None, EnableOOMKill |-> None, EnableTCPQueueLength |-> None,
   BPFDebugEnabled |-> None, CollectDNSStats |-> None, ConntrackEnabled |-> None,
   SecCompRootPath |-> None, AppArmorProfileName |-> None, SecCompProfileName |-> None]
EmptySyscallMonitorSpec == [Enabled |-> None]
EmptySecuritySpec ==
  [Compliance |-> [Enabled |-> None],
   Runtime |-> [Enabled |-> None, SyscallMonitor |-> None]]
EmptyProcessSpec == [Enabled |-> None, ProcessCollectionEnabled |-> None]
EmptyAgentSpec ==
  [Enabled |-> None, UseExtendedDaemonset |-> None, Image |-> None, NodeAgent |-> None,
   Rbac |-> None, DeploymentStrategy |-> None, Apm |-> None, SystemProbe |-> None,
   Security |-> None, Process |-> None, NetworkPolicy |-> None]

\* IsEqualStruct(x, T{}): x has no field set.  e is the empty value of x's type.
IsEqualStruct(x, e) == x = e


\* The override field for a returned override: nil when it is the empty struct.
Unless(ov, e) == IF IsEqualStruct(ov, e) THEN None ELSE Some(ov)

\* A call that cannot panic has no ok field.
Ok(r) == IF "ok" \in DOMAIN r THEN r.ok ELSE TRUE

\* One sub-defaulting call made by a component's defaulting function.  s is the
\* component, its override and whether execution is still going on; r is the
\* result of the call on s.n, whose override goes into field f of the
\* component's override unless it is the empty struct e.  Nothing runs after a
\* panic.
Step(s, r, f, e) ==
  IF ~s.ok THEN s
  ELSE [n |-> r.n, ov |-> [s.ov EXCEPT ![f] = Unless(r.ov, e)], ok |-> Ok(r)]

\* --------------------------------------------------- image tags (pkg/utils)
\* Image names the model draws from, with the tag each carries after ':'.
ImageTagOf ==
  [x \in {"agent", "agent:latest", "agent:7.26.0", "agent:7.28.0", "agent:6.26.0",
          "agent:7.26.0-jmx", "cluster-agent"} |->
     CASE x = "agent:latest" -> "latest"
       [] x = "agent:7.26.0" -> "7.26.0"
       [] x = "agent:7.28.0" -> "7.28.0"
       [] x = "agent:6.26.0" -> "6.26.0"
       [] x = "agent:7.26.0-jmx" -> "7.26.0-jmx"
       [] OTHER -> "latest"]
\* utils.GetTagFromImageName: the text after ':', "latest" when there is none.
GetTagFromImageName(name) == ImageTagOf[name]
\* strings.TrimSuffix(tag, "-jmx")
TrimSuffixJmx(tag) == IF tag = "7.26.0-jmx" THEN "7.26.0" ELSE tag
\* <<major, minor, patch>> of the tags that parse as versions.
VersionOf ==
  [x \in {"7.26.0", "7.28.0", "6.26.0", "7.27.0-0", "6.27.0-0"} |->
     CASE x = "7.26.0" -> <<7, 26, 0>>
       [] x = "7.28.0" -> <<7, 28, 0>>
       [] x = "6.26.0" -> <<6, 26, 0>>
       [] x = "7.27.0-0" -> <<7, 27, 0>>
       [] x = "6.27.0-0" -> <<6, 27, 0>>]
VersionLeq(a, b) ==
  \/ a[1] < b[1]
  \/ a[1] = b[1] /\ a[2] < b[2]
  \/ a[1] = b[1] /\ a[2] = b[2] /\ a[3] <= b[3]
\* utils.IsAboveMinVersion: version >= minVersion; false when version does not parse.
IsAboveMinVersion(version, minVersion) ==
  /\ version \in DOMAIN VersionOf
  /\ VersionLeq(VersionOf[minVersion], VersionOf[version])

\* ------------------------------------------------------------ agent: image
DefaultDatadogAgentSpecAgentImage(agent, name, tag) ==
  LET img0 == IF agent.Image = None THEN EmptyImageConfig ELSE Deref(agent.Image)
      rec == [Name |-> Some(name), Tag |-> Some(tag),
              PullPolicy |-> Some(defaultImagePullPolicy)]
      img1 == FillUnset(FillUnset(img0, rec), [PullSecrets |-> Some(<<>>)])
  IN [n |-> [agent EXCEPT !.Image = Some(img1)],
      ov |-> Recorded(EmptyImageConfig, img0, rec)]

GetDefaultLivenessProbe ==
  [InitialDelaySeconds |-> defaultLivenessProbeInitialDelaySeconds,
   PeriodSeconds |-> defaultLivenessProbePeriodSeconds,
   TimeoutSeconds |-> defaultLivenessProbeTimeoutSeconds,
   SuccessThreshold |-> defaultLivenessProbeSuccessThreshold,
   FailureThreshold |-> defaultLivenessProbeFailureThreshold,
   HTTPGet |-> [Path |-> defaultLivenessProbeHTTPPath, Port |-> defaultAgentHealthPort]]

\* GetDefaultReadinessProbe answering on the liveness path.
GetDefaultReadinessProbeOnLivePath ==
  [InitialDelaySeconds |-> defaultReadinessProbeInitialDelaySeconds,
   PeriodSeconds |-> defaultReadinessProbePeriodSeconds,
   TimeoutSeconds |-> defaultReadinessProbeTimeoutSeconds,
   SuccessThreshold |-> defaultReadinessProbeSuccessThreshold,
   FailureThreshold |-> defaultReadinessProbeFailureThreshold,
   HTTPGet |-> [Path |-> defaultLivenessProbeHTTPPath, Port |-> defaultAgentHealthPort]]

GetDefaultReadinessProbe ==
  [InitialDelaySeconds |-> defaultReadinessProbeInitialDelaySeconds,
   PeriodSeconds |-> defaultReadinessProbePeriodSeconds,
   TimeoutSeconds |-> defaultReadinessProbeTimeoutSeconds,
   SuccessThreshold |-> defaultReadinessProbeSuccessThreshold,
   FailureThreshold |-> defaultReadinessProbeFailureThreshold,
   HTTPGet |-> [Path |-> defaultReadinessProbeHTTPPath, Port |-> defaultAgentHealthPort]]

\* ------------------------------------------------------- agent: node agent
DefaultContainerSocket(config) ==
  IF config.CriSocket = None
  THEN LET sock == [DockerSocketPath |-> NewStringPointer(defaultDockerSocketPath)]
       IN [n |-> [config EXCEPT !.CriSocket = Some(sock)], ov |-> sock]
  ELSE LET s0 == Deref(config.CriSocket)
           rec == [DockerSocketPath |-> NewStringPointer(defaultDockerSocketPath)]
       IN [n |-> [config EXCEPT !.CriSocket = Some(FillUnset(s0, rec))],
           ov |-> Recorded(EmptyCRISocketConfig, s0, rec)]

DefaultConfigDogstatsdUDS(dsd) ==
  LET u0 == IF dsd.UnixDomainSocket = None THEN EmptyDSDUnixDomainSocketSpec
            ELSE Deref(dsd.UnixDomainSocket)
      rec == [Enabled |-> NewBoolPointer(defaultUseDogStatsDSocketVolume),
              HostFilepath |-> Some("/var/run/datadog/statsd.sock")]
  IN [n |-> [dsd EXCEPT !.UnixDomainSocket = Some(FillUnset(u0, rec))],
      ov |-> Recorded(EmptyDSDUnixDomainSocketSpec, u0, rec)]

DefaultConfigDogstatsd(config) ==
  LET d0 == IF config.Dogstatsd = None THEN EmptyDogstatsdConfig ELSE Deref(config.Dogstatsd)
      rec == [DogstatsdOriginDetection |-> NewBoolPointer(defaultDogstatsdOriginDetection)]
      d1 == FillUnset(d0, rec)
      o1 == Recorded(EmptyDogstatsdConfig, d0, rec)
      uds == DefaultConfigDogstatsdUDS(d1)
  IN [n |-> [config EXCEPT !.Dogstatsd = Some(uds.n)],
      ov |-> [o1 EXCEPT !.UnixDomainSocket = Unless(uds.ov, EmptyDSDUnixDomainSocketSpec)]]

DefaultDatadogAgentSpecAgentConfig(agents) ==
  LET na0 == IF agents.NodeAgent = None THEN EmptyNodeAgentSpec ELSE Deref(agents.NodeAgent)
      \* lines 307-310: the log level is assigned to itself, not to the override
      cc1 == FillUnset(na0.ContainerConfig, [LogLevel |-> NewStringPointer(defaultLogLevel)])
      rec == [CollectEvents |-> NewBoolPointer(defaultCollectEvents),
              LeaderElection |-> NewBoolPointer(defaultLeaderElection)]
      na1 == [FillUnset(na0, rec) EXCEPT !.ContainerConfig = cc1]
      o1 == Recorded(EmptyNodeAgentSpec, na0, rec)
      agentTag == TrimSuffixJmx(GetTagFromImageName(Deref(Deref(agents.Image).Name)))
      skip == \/ agentTag = "latest"
              \/ IsAboveMinVersion(agentTag, "7.27.0-0")
              \/ IsAboveMinVersion(agentTag, "6.27.0-0")
      sock == DefaultContainerSocket(na1)
      na2 == IF skip THEN na1 ELSE sock.n
      o2 == IF skip THEN o1
            ELSE [o1 EXCEPT !.CriSocket = Unless(sock.ov, EmptyCRISocketConfig)]
      dsd == DefaultConfigDogstatsd(na2)
      na3 == dsd.n
      o3 == [o2 EXCEPT !.Dogstatsd = Unless(dsd.ov, EmptyDogstatsdConfig)]
      na4 == FillUnset(na3, [PodLabelsAsTags |-> Some(<<>>),
                             PodAnnotationsAsTags |-> Some(<<>>), Tags |-> Some(<<>>)])
      ccrec == [LivenessProbe |-> Some(GetDefaultLivenessProbe),
                ReadinessProbe |-> Some(GetDefaultReadinessProbe),
                HealthPort |-> NewInt32Pointer(defaultAgentHealthPort)]
      cc2 == FillUnset(FillUnset(na4.ContainerConfig, [Resources |-> Some(<<>>)]), ccrec)
  IN [n |-> [agents EXCEPT !.NodeAgent = Some([na4 EXCEPT !.ContainerConfig = cc2])],
      ov |-> [o3 EXCEPT !.ContainerConfig =
                Recorded(EmptyNodeContainerConfig, na4.ContainerConfig, ccrec)]]

\* --------------------------------------------------------------- rbac
DefaultRbacConfig(rbac) ==
  LET rec == [Create |-> NewBoolPointer(defaultRbacCreate)]
  IN [n |-> FillUnset(rbac, rec), ov |-> Recorded(EmptyRbacConfig, rbac, rec)]

DefaultDatadogAgentSpecRbacConfig(agent) ==
  LET r == DefaultRbacConfig(IF agent.Rbac = None THEN EmptyRbacConfig ELSE Deref(agent.Rbac))
  IN [n |-> [agent EXCEPT !.Rbac = Some(r.n)], ov |-> r.ov]

\* ------------------------------------------------- agent: deployment strategy
DefaultDatadogAgentSpecDatadogAgentStrategy(agents) ==
  LET s0 == IF agents.DeploymentStrategy = None THEN EmptyDaemonSetDeploymentStrategy
            ELSE Deref(agents.DeploymentStrategy)
      rec == [UpdateStrategyType |-> Some(defaultUpdateStrategy),
              Canary |-> Some("DefaultExtendedDaemonSetSpecStrategyCanary"),
              ReconcileFrequency |-> Some(defaultReconcileFrequency)]
      rurec == [MaxUnavailable |-> Some(defaultRollingUpdateMaxUnavailable),
                MaxPodSchedulerFailure |-> Some(defaultRollingUpdateMaxPodSchedulerFailure),
                MaxParallelPodCreation |->
                  NewInt32Pointer(defaultRollingUpdateMaxParallelPodCreation),
                SlowStartIntervalDuration |->
                  Some(defaultRollingUpdateSlowStartIntervalDuration),
                SlowStartAdditiveIncrease |->
                  Some(defaultRollingUpdateSlowStartAdditiveIncrease)]
      s1 == [FillUnset(s0, rec) EXCEPT !.RollingUpdate = FillUnset(s0.RollingUpdate, rurec)]
      o1 == [Recorded(EmptyDaemonSetDeploymentStrategy, s0, rec) EXCEPT
               !.RollingUpdate = Recorded(EmptyRollingUpdate, s0.RollingUpdate, rurec)]
  IN [n |-> [agents EXCEPT !.DeploymentStrategy = Some(s1)], ov |-> o1]


\* ------------------------------------------------------------- agent: APM
getDefaultAPMAgentLivenessProbe ==
  [InitialDelaySeconds |-> defaultLivenessProbeInitialDelaySeconds,
   PeriodSeconds |-> defaultLivenessProbePeriodSeconds,
   TimeoutSeconds |-> defaultLivenessProbeTimeoutSeconds,
   TCPSocket |-> [Port |-> defaultApmHostPort]]

DefaultDatadogAgentSpecAgentApmUDS(apm) ==
  IF apm.UnixDomainSocket = None
  THEN LET u == [EmptyAPMUnixDomainSocketSpec EXCEPT !.Enabled = NewBoolPointer(FALSE)]
       IN [n |-> [apm EXCEPT !.UnixDomainSocket = Some(u)], ov |-> u]
  ELSE LET u0 == Deref(apm.UnixDomainSocket)
           rec1 == [Enabled |-> NewBoolPointer(FALSE)]
           u1 == FillUnset(u0, rec1)
           o1 == Recorded(EmptyAPMUnixDomainSocketSpec, u0, rec1)
           rec2 == [HostFilepath |-> Some("/var/run/datadog/apm.sock")]
       IN IF ~BoolValue(u1.Enabled)
          THEN [n |-> [apm EXCEPT !.UnixDomainSocket = Some(u1)], ov |-> o1]
          ELSE [n |-> [apm EXCEPT !.UnixDomainSocket = Some(FillUnset(u1, rec2))],
                ov |-> Recorded(o1, u1, rec2)]

DefaultDatadogAgentSpecAgentApm(agents) ==
  IF agents.Apm = None
  THEN LET a == [EmptyAPMSpec EXCEPT !.Enabled = NewBoolPointer(defaultApmEnabled)]
       IN [n |-> [agents EXCEPT !.Apm = Some(a)], ov |-> a]
  ELSE LET a0 == Deref(agents.Apm)
           rec1 == [Enabled |-> NewBoolPointer(defaultApmEnabled)]
           a1 == FillUnset(a0, rec1)
           o1 == Recorded(EmptyAPMSpec, a0, rec1)
           rec2 == [HostPort |-> NewInt32Pointer(defaultApmHostPort)]
           ccrec == [LivenessProbe |-> Some(getDefaultAPMAgentLivenessProbe)]
           a2 == [FillUnset(a1, rec2) EXCEPT
                    !.ContainerConfig = FillUnset(a1.ContainerConfig, ccrec)]
           o2 == [Recorded(o1, a1, rec2) EXCEPT
                    !.ContainerConfig =
                       Recorded(EmptyAPMContainerConfig, a1.ContainerConfig, ccrec)]
           uds == DefaultDatadogAgentSpecAgentApmUDS(a2)
       IN IF ~BoolValue(a1.Enabled)
          THEN [n |-> [agents EXCEPT !.Apm = Some(a1)], ov |-> o1]
          ELSE [n |-> [agents EXCEPT !.Apm = Some(uds.n)],
                ov |-> [o2 EXCEPT !.UnixDomainSocket =
                                    Unless(uds.ov, EmptyAPMUnixDomainSocketSpec)]]

\* ---------------------------------------------------- agent: system probe
DefaultDatadogAgentSpecAgentSystemProbe(agents) ==
  IF agents.SystemProbe = None
  THEN LET sp == [EmptySystemProbeSpec EXCEPT
                    !.Enabled = NewBoolPointer(defaultSystemProbeEnabled)]
       IN [n |-> [agents EXCEPT !.SystemProbe = Some(sp)], ov |-> sp]
  ELSE LET s0 == Deref(agents.SystemProbe)
           rec1 == [Enabled |-> NewBoolPointer(defaultSystemProbeEnabled)]
           s1 == FillUnset(s0, rec1)
           o1 == Recorded(EmptySystemProbeSpec, s0, rec1)
           rec2 == [EnableOOMKill |-> NewBoolPointer(defaultSystemProbeOOMKillEnabled),
                    EnableTCPQueueLength |->
                      NewBoolPointer(defaultSystemProbeTCPQueueLengthEnabled),
                    BPFDebugEnabled |-> NewBoolPointer(defaultSystemProbeBPFDebugEnabled),
                    CollectDNSStats |-> NewBoolPointer(defaultSystemProbeCollectDNSStats),
                    ConntrackEnabled |-> NewBoolPointer(defaultSystemProbeConntrackEnabled),
                    SecCompRootPath |-> Some(defaultSystemProbeSecCompRootPath),
                    AppArmorProfileName |-> Some(defaultAppArmorProfileName),
                    SecCompProfileName |-> Some(DefaultSeccompProfileName)]
       IN IF ~BoolValue(s1.Enabled)
          THEN [n |-> [agents EXCEPT !.SystemProbe = Some(s1)], ov |-> o1]
          ELSE [n |-> [agents EXCEPT !.SystemProbe = Some(FillUnset(s1, rec2))],
                ov |-> Recorded(o1, s1, rec2)]

\* -------------------------------------------------------- agent: security
\* ok is FALSE when line 700 writes through the override's nil SyscallMonitor:
\* the spec has a SyscallMonitor whose Enabled is unset.
DefaultDatadogAgentSpecAgentSecurity(agents) ==
  LET s0 == IF agents.Security = None THEN EmptySecuritySpec ELSE Deref(agents.Security)
      c1 == FillUnset(s0.Compliance,
                      [Enabled |-> NewBoolPointer(defaultSecurityComplianceEnabled)])
      oc == Recorded([Enabled |-> None], s0.Compliance,
                     [Enabled |-> NewBoolPointer(defaultSecurityComplianceEnabled)])
      rrec == [Enabled |-> NewBoolPointer(defaultSecurityRuntimeEnabled)]
      r1 == FillUnset(s0.Runtime, rrec)
      or1 == Recorded(EmptySecuritySpec.Runtime, s0.Runtime, rrec)
      smNil == s0.Runtime.SyscallMonitor = None
      sm0 == IF smNil THEN EmptySyscallMonitorSpec ELSE Deref(s0.Runtime.SyscallMonitor)
      sm1 == FillUnset(sm0, [Enabled |-> NewBoolPointer(defaultSecuritySyscallMonitorEnabled)])
      panics == ~smNil /\ sm0.Enabled = None
      s1 == [Compliance |-> c1, Runtime |-> [r1 EXCEPT !.SyscallMonitor = Some(sm1)]]
      o1 == [Compliance |-> oc,
             Runtime |-> [or1 EXCEPT !.SyscallMonitor = IF smNil THEN Some(sm1) ELSE None]]
  IN [n |-> [agents EXCEPT !.Security = Some(s1)], ov |-> o1, ok |-> ~panics]

\* --------------------------------------------------------- agent: process
DefaultDatadogAgentSpecAgentProcess(agents) ==
  IF agents.Process = None
  THEN LET pr == [EmptyProcessSpec EXCEPT !.Enabled = NewBoolPointer(defaultProcessEnabled)]
       IN [n |-> [agents EXCEPT !.Process = Some(pr)], ov |-> pr]
  ELSE LET p0 == Deref(agents.Process)
           rec1 == [Enabled |-> NewBoolPointer(defaultProcessEnabled)]
           p1 == FillUnset(p0, rec1)
           o1 == Recorded(EmptyProcessSpec, p0, rec1)
           rec2 == [ProcessCollectionEnabled |->
                      NewBoolPointer(defaultProcessCollectionEnabled)]
       IN IF ~BoolValue(p1.Enabled)
          THEN [n |-> [agents EXCEPT !.Process = Some(p1)], ov |-> o1]
          ELSE [n |-> [agents EXCEPT !.Process = Some(FillUnset(p1, rec2))],
                ov |-> Recorded(o1, p1, rec2)]

\* ---------------------------------------------------------- network policy
DefaultNetworkPolicy(policy) ==
  LET rec == [Create |-> NewBoolPointer(FALSE)]
  IN [n |-> FillUnset(policy, rec), ov |-> Recorded(EmptyNetworkPolicySpec, policy, rec)]

DefaultAgentNetworkPolicy(agent) ==
  LET r == DefaultNetworkPolicy(IF agent.NetworkPolicy = None THEN EmptyNetworkPolicySpec
                                ELSE Deref(agent.NetworkPolicy))
  IN [n |-> [agent EXCEPT !.NetworkPolicy = Some(r.n)], ov |-> r.ov]

\* ------------------------------------------------------------ node agent
\* ok is FALSE when the security defaulting panics; n is then the agent as
\* mutated up to that point.
DefaultDatadogAgentSpecAgent(daemonsetAgents) ==
  LET empty == IsEqualStruct(daemonsetAgents, EmptyAgentSpec)
      a1 == IF empty
            THEN [daemonsetAgents EXCEPT !.Enabled = NewBoolPointer(defaultAgentEnabled)]
            ELSE daemonsetAgents
      rec == [Enabled |-> NewBoolPointer(defaultAgentEnabled),
              UseExtendedDaemonset |-> NewBoolPointer(FALSE)]
      a2 == FillUnset(a1, [Enabled |-> rec.Enabled])
      o2 == Recorded(EmptyAgentSpec, a1, [Enabled |-> rec.Enabled])
      a3 == FillUnset(a2, rec)
      o3 == Recorded(o2, a2, rec)
      Image(s) == Step(s, DefaultDatadogAgentSpecAgentImage(
                            s.n, defaultAgentImageName, defaultAgentImageTag),
                       "Image", EmptyImageConfig)
      Config(s) == Step(s, DefaultDatadogAgentSpecAgentConfig(s.n),
                        "NodeAgent", EmptyNodeAgentSpec)
      Rbac(s) == Step(s, DefaultDatadogAgentSpecRbacConfig(s.n), "Rbac", EmptyRbacConfig)
      Strategy(s) == Step(s, DefaultDatadogAgentSpecDatadogAgentStrategy(s.n),
                          "DeploymentStrategy", EmptyDaemonSetDeploymentStrategy)
      Apm(s) == Step(s, DefaultDatadogAgentSpecAgentApm(s.n), "Apm", EmptyAPMSpec)
      SystemProbe(s) == Step(s, DefaultDatadogAgentSpecAgentSystemProbe(s.n),
                             "SystemProbe", EmptySystemProbeSpec)
      Security(s) == Step(s, DefaultDatadogAgentSpecAgentSecurity(s.n),
                          "Security", EmptySecuritySpec)
      Process(s) == Step(s, DefaultDatadogAgentSpecAgentProcess(s.n),
                         "Process", EmptyProcessSpec)
      NetworkPolicy(s) == Step(s, DefaultAgentNetworkPolicy(s.n),
                               "NetworkPolicy", EmptyNetworkPolicySpec)
      Return(s) == IF s.ok THEN s ELSE [n |-> s.n, ov |-> EmptyAgentSpec, ok |-> FALSE]
  IN IF empty /\ ~BoolValue(a1.Enabled) THEN [n |-> a1, ov |-> a1, ok |-> TRUE]
     ELSE IF ~BoolValue(a2.Enabled) THEN [n |-> a2, ov |-> o2, ok |-> TRUE]
     ELSE Return(NetworkPolicy(Process(Security(SystemProbe(Apm(Strategy(Rbac(Config(
            Image([n |-> a3, ov |-> o3, ok |-> TRUE]))))))))))


\* ---------------------------------------------------------------- features
EmptyScrubbing == [Containers |-> None]
EmptyOrchestratorExplorerConfig ==
  [Enabled |-> None, ClusterCheck |-> None, Scrubbing |-> None]
EmptyKubeStateMetricsCore == [Enabled |-> None, ClusterCheck |-> None]
EmptyPrometheusScrapeConfig == [Enabled |-> None, ServiceEndpoints |-> None]
EmptyLogCollectionConfig ==
  [Enabled |-> None, LogsConfigContainerCollectAll |-> None,
   ContainerCollectUsingFiles |-> None, ContainerLogsPath |-> None, PodLogsPath |-> None,
   ContainerSymlinksPath |-> None, TempStoragePath |-> None, OpenFilesLimit |-> None]
EmptyNetworkMonitoringConfig == [Enabled |-> None]
EmptyDatadogFeatures ==
  [OrchestratorExplorer |-> None, KubeStateMetricsCore |-> None, PrometheusScrape |-> None,
   LogCollection |-> None, NetworkMonitoring |-> None]

DefaultDatadogFeatureLogCollection(ft) ==
  IF ft.LogCollection = None
  THEN LET lc == [EmptyLogCollectionConfig EXCEPT !.Enabled = NewBoolPointer(defaultLogEnabled)]
       IN [n |-> [ft EXCEPT !.LogCollection = Some(lc)], ov |-> lc]
  ELSE LET l0 == Deref(ft.LogCollection)
           l1 == FillUnset(l0, [Enabled |-> NewBoolPointer(defaultLogEnabled)])
           \* line 718: the override starts with the current Enabled, set or defaulted
           o1 == [EmptyLogCollectionConfig EXCEPT !.Enabled = l1.Enabled]
           rec == [LogsConfigContainerCollectAll |->
                     NewBoolPointer(defaultLogsConfigContainerCollectAll),
                   ContainerCollectUsingFiles |->
                     NewBoolPointer(defaultLogsContainerCollectUsingFiles),
                   ContainerLogsPath |-> NewStringPointer(defaultContainerLogsPath),
                   PodLogsPath |-> NewStringPointer(defaultPodLogsPath),
                   ContainerSymlinksPath |-> NewStringPointer(defaultContainerSymlinksPath),
                   TempStoragePath |-> NewStringPointer(defaultLogsTempStoragePath),
                   OpenFilesLimit |-> NewInt32Pointer(defaultLogsOpenFilesLimit)]
       IN IF ~BoolValue(l1.Enabled)
          THEN [n |-> [ft EXCEPT !.LogCollection = Some(l1)], ov |-> o1]
          ELSE [n |-> [ft EXCEPT !.LogCollection = Some(FillUnset(l1, rec))],
                ov |-> Recorded(o1, l1, rec)]

clusterChecksRunnerEnabled(spec) ==
  IF spec.ClusterChecksRunner.Enabled # None
  THEN Deref(spec.ClusterChecksRunner.Enabled)
  ELSE FALSE

\* ok is FALSE when line 857 writes through the override's nil Scrubbing: the
\* explorer is enabled and the spec has a Scrubbing whose Containers is unset.
defaultEnabledDatadogFeatureOrchestratorExplorer(config, withClusterChecksRunner) ==
  LET rec1 == [Enabled |-> NewBoolPointer(defaultOrchestratorExplorerEnabled)]
      c1 == FillUnset(config, rec1)
      o1 == Recorded(EmptyOrchestratorExplorerConfig, config, rec1)
      rec2 == [ClusterCheck |-> NewBoolPointer(withClusterChecksRunner)]
      c2 == FillUnset(c1, rec2)
      o2 == Recorded(o1, c1, rec2)
      scNil == c2.Scrubbing = None
      sc0 == IF scNil THEN EmptyScrubbing ELSE Deref(c2.Scrubbing)
      sc1 == FillUnset(sc0, [Containers |->
               NewBoolPointer(defaultOrchestratorExplorerContainerScrubbingEnabled)])
      panics == ~scNil /\ sc0.Containers = None
  IN IF BoolValue(c1.Enabled)
     THEN [n |-> [c2 EXCEPT !.Scrubbing = Some(sc1)],
           ov |-> [o2 EXCEPT !.Scrubbing = IF scNil THEN Some(sc1) ELSE None],
           ok |-> ~panics]
     ELSE [n |-> c1, ov |-> [o1 EXCEPT !.Enabled = NewBoolPointer(FALSE)], ok |-> TRUE]

DefaultDatadogFeatureOrchestratorExplorer(ft, withClusterChecksRunner) ==
  LET r == defaultEnabledDatadogFeatureOrchestratorExplorer(
             IF ft.OrchestratorExplorer = None THEN EmptyOrchestratorExplorerConfig
             ELSE Deref(ft.OrchestratorExplorer), withClusterChecksRunner)
  IN [n |-> [ft EXCEPT !.OrchestratorExplorer = Some(r.n)], ov |-> r.ov, ok |-> r.ok]

DefaultDatadogFeatureKubeStateMetricsCore(ft, withClusterChecksRunner) ==
  LET rec == [Enabled |-> NewBoolPointer(defaultKubeStateMetricsCoreEnabled),
              ClusterCheck |-> NewBoolPointer(withClusterChecksRunner)]
      k1 == FillUnset(IF ft.KubeStateMetricsCore = None THEN EmptyKubeStateMetricsCore
                      ELSE Deref(ft.KubeStateMetricsCore), rec)
  IN \* both branches return the current Enabled and ClusterCheck
     [n |-> [ft EXCEPT !.KubeStateMetricsCore = Some(k1)],
      ov |-> [Enabled |-> k1.Enabled, ClusterCheck |-> k1.ClusterCheck]]

DefaultDatadogFeaturePrometheusScrape(ft) ==
  LET p0 == IF ft.PrometheusScrape = None THEN EmptyPrometheusScrapeConfig
            ELSE Deref(ft.PrometheusScrape)
      p1 == FillUnset(p0, [Enabled |-> NewBoolPointer(defaultPrometheusScrapeEnabled)])
      o1 == [EmptyPrometheusScrapeConfig EXCEPT !.Enabled = p1.Enabled]
      rec == [ServiceEndpoints |-> NewBoolPointer(defaultPrometheusScrapeServiceEndpoints)]
  IN IF ~BoolValue(p1.Enabled)
     THEN [n |-> [ft EXCEPT !.PrometheusScrape = Some(p1)], ov |-> o1]
     ELSE [n |-> [ft EXCEPT !.PrometheusScrape = Some(FillUnset(p1, rec))],
           ov |-> Recorded(o1, p1, rec)]

DefaultDatadogFeatureNetworkMonitoring(ft) ==
  LET n1 == FillUnset(IF ft.NetworkMonitoring = None THEN EmptyNetworkMonitoringConfig
                      ELSE Deref(ft.NetworkMonitoring),
                      [Enabled |-> NewBoolPointer(FALSE)])
  IN \* both branches return the current Enabled
     [n |-> [ft EXCEPT !.NetworkMonitoring = Some(n1)], ov |-> [Enabled |-> n1.Enabled]]

\* spec is dda.Spec; n is dda.Spec after the call.
DefaultFeatures(spec) ==
  LET clusterCheckEnabled == clusterChecksRunnerEnabled(spec)
      OrchestratorExplorer(s) ==
        Step(s, DefaultDatadogFeatureOrchestratorExplorer(s.n, clusterCheckEnabled),
             "OrchestratorExplorer", EmptyOrchestratorExplorerConfig)
      KubeStateMetricsCore(s) ==
        Step(s, DefaultDatadogFeatureKubeStateMetricsCore(s.n, clusterCheckEnabled),
             "KubeStateMetricsCore", EmptyKubeStateMetricsCore)
      PrometheusScrape(s) == Step(s, DefaultDatadogFeaturePrometheusScrape(s.n),
                                  "PrometheusScrape", EmptyPrometheusScrapeConfig)
      LogCollection(s) == Step(s, DefaultDatadogFeatureLogCollection(s.n),
                               "LogCollection", EmptyLogCollectionConfig)
      NetworkMonitoring(s) == Step(s, DefaultDatadogFeatureNetworkMonitoring(s.n),
                                   "NetworkMonitoring", EmptyNetworkMonitoringConfig)
      Return(s) == [n |-> [spec EXCEPT !.Features = s.n],
                    ov |-> IF s.ok THEN s.ov ELSE EmptyDatadogFeatures, ok |-> s.ok]
  IN Return(NetworkMonitoring(LogCollection(PrometheusScrape(KubeStateMetricsCore(
       OrchestratorExplorer([n |-> spec.Features, ov |-> EmptyDatadogFeatures,
                             ok |-> TRUE]))))))


\* ----------------------------------------------------------- cluster agent
EmptyExternalMetricsConfig == [Enabled |-> None, Port |-> None]
EmptyAdmissionControllerConfig ==
  [Enabled |-> None, MutateUnlabelled |-> None, ServiceName |-> None]
EmptyFeaturesConfigClusterAgent ==
  [ExternalMetrics |-> None, ClusterChecksEnabled |-> None, CollectEvents |-> None,
   AdmissionController |-> None]
EmptyClusterAgentContainerConfig ==
  [LogLevel |-> None, Resources |-> None, HealthPort |-> None]
EmptyClusterAgentConfig ==
  [ContainerConfig |-> EmptyClusterAgentContainerConfig,
   Features |-> EmptyFeaturesConfigClusterAgent]
EmptyClusterAgentSpec ==
  [Enabled |-> None, Image |-> None, Config |-> None, CustomConfig |-> None,
   Rbac |-> None, NetworkPolicy |-> None]

DefaultExternalMetrics(conf) ==
  IF conf.ExternalMetrics = None /\ ~defaultExternalMetricsEnabled
  THEN LET em == [EmptyExternalMetricsConfig EXCEPT
                    !.Enabled = NewBoolPointer(defaultExternalMetricsEnabled)]
       IN [n |-> [conf EXCEPT !.ExternalMetrics = Some(em)], ov |-> em]
  ELSE LET e0 == IF conf.ExternalMetrics = None
                 THEN [EmptyExternalMetricsConfig EXCEPT
                         !.Enabled = NewBoolPointer(defaultExternalMetricsEnabled)]
                 ELSE Deref(conf.ExternalMetrics)
           rec1 == [Enabled |-> NewBoolPointer(TRUE)]
           e1 == FillUnset(e0, rec1)
           o1 == Recorded(EmptyExternalMetricsConfig, e0, rec1)
           rec2 == [Port |-> NewInt32Pointer(defaultMetricsProviderPort)]
       IN IF BoolValue(e1.Enabled)
          THEN [n |-> [conf EXCEPT !.ExternalMetrics = Some(FillUnset(e1, rec2))],
                ov |-> Recorded(o1, e1, rec2)]
          ELSE [n |-> [conf EXCEPT !.ExternalMetrics = Some(e1)], ov |-> o1]

DefaultAdmissionController(conf) ==
  IF conf.AdmissionController = None /\ ~defaultAdmissionControllerEnabled
  THEN LET ac == [EmptyAdmissionControllerConfig EXCEPT
                    !.Enabled = NewBoolPointer(defaultAdmissionControllerEnabled)]
       IN [n |-> [conf EXCEPT !.AdmissionController = Some(ac)], ov |-> ac]
  ELSE LET a0 == IF conf.AdmissionController = None
                 THEN [EmptyAdmissionControllerConfig EXCEPT
                         !.Enabled = NewBoolPointer(defaultAdmissionControllerEnabled)]
                 ELSE Deref(conf.AdmissionController)
           rec == [Enabled |-> NewBoolPointer(defaultAdmissionControllerEnabled),
                   MutateUnlabelled |-> NewBoolPointer(defaultMutateUnlabelled),
                   ServiceName |-> NewStringPointer(DefaultAdmissionServiceName)]
       IN [n |-> [conf EXCEPT !.AdmissionController = Some(FillUnset(a0, rec))],
           ov |-> Recorded(EmptyAdmissionControllerConfig, a0, rec)]

\* ok is FALSE when line 986 reads through a nil Config: CustomConfig is set
\* and Config is not.
DefaultDatadogAgentSpecClusterAgentConfig(dca) ==
  LET \* lines 982-984: Config is replaced whenever CustomConfig is nil
      cfgPtr == IF dca.CustomConfig = None THEN Some(EmptyClusterAgentConfig) ELSE dca.Config
      panics == cfgPtr = None
      c0 == IF panics THEN EmptyClusterAgentConfig ELSE Deref(cfgPtr)
      ccrec == [LogLevel |-> NewStringPointer(defaultLogLevel),
                HealthPort |-> NewInt32Pointer(defaultAgentHealthPort)]
      cc1 == FillUnset(FillUnset(c0.ContainerConfig, ccrec), [Resources |-> Some(<<>>)])
      occ == Recorded(EmptyClusterAgentContainerConfig, c0.ContainerConfig, ccrec)
      ext == DefaultExternalMetrics(c0.Features)
      frec == [ClusterChecksEnabled |-> NewBoolPointer(defaultClusterChecksEnabled),
               CollectEvents |-> NewBoolPointer(defaultCollectEvents)]
      f1 == FillUnset(ext.n, frec)
      adm == DefaultAdmissionController(f1)
      of == [Recorded(EmptyFeaturesConfigClusterAgent, ext.n, frec) EXCEPT
               !.ExternalMetrics = Unless(ext.ov, EmptyExternalMetricsConfig),
               !.AdmissionController = Unless(adm.ov, EmptyAdmissionControllerConfig)]
  IN IF panics THEN [n |-> dca, ov |-> EmptyClusterAgentConfig, ok |-> FALSE]
     ELSE [n |-> [dca EXCEPT !.Config = Some([ContainerConfig |-> cc1, Features |-> adm.n])],
           ov |-> [ContainerConfig |-> occ, Features |-> of], ok |-> TRUE]

DefaultDatadogClusterAgentImage(dca, name, tag) ==
  LET img0 == IF dca.Image = None THEN EmptyImageConfig ELSE Deref(dca.Image)
      rec == [Name |-> Some(name), Tag |-> Some(tag),
              PullPolicy |-> Some(defaultImagePullPolicy)]
      img1 == FillUnset(FillUnset(img0, rec), [PullSecrets |-> Some(<<>>)])
  IN [n |-> [dca EXCEPT !.Image = Some(img1)],
      ov |-> Recorded(EmptyImageConfig, img0, rec)]

DefaultDatadogClusterAgentSpecRbacConfig(dca) ==
  LET r == DefaultRbacConfig(IF dca.Rbac = None THEN EmptyRbacConfig ELSE Deref(dca.Rbac))
  IN [n |-> [dca EXCEPT !.Rbac = Some(r.n)], ov |-> r.ov]

DefaultClusterAgentNetworkPolicy(dca) ==
  LET r == DefaultNetworkPolicy(IF dca.NetworkPolicy = None THEN EmptyNetworkPolicySpec
                                ELSE Deref(dca.NetworkPolicy))
  IN [n |-> [dca EXCEPT !.NetworkPolicy = Some(r.n)], ov |-> r.ov]

DefaultDatadogAgentSpecClusterAgent(clusterAgent) ==
  LET empty == IsEqualStruct(clusterAgent, EmptyClusterAgentSpec)
      c1 == IF empty
            THEN [clusterAgent EXCEPT !.Enabled = NewBoolPointer(defaultClusterAgentEnabled)]
            ELSE clusterAgent
      rec == [Enabled |-> NewBoolPointer(defaultClusterAgentEnabled)]
      c2 == FillUnset(c1, rec)
      o2 == Recorded(EmptyClusterAgentSpec, c1, rec)
      Image(s) == Step(s, DefaultDatadogClusterAgentImage(
                            s.n, defaultClusterAgentImageName, defaultClusterAgentImageTag),
                       "Image", EmptyImageConfig)
      Config(s) == Step(s, DefaultDatadogAgentSpecClusterAgentConfig(s.n),
                        "Config", EmptyClusterAgentConfig)
      Rbac(s) == Step(s, DefaultDatadogClusterAgentSpecRbacConfig(s.n),
                      "Rbac", EmptyRbacConfig)
      NetworkPolicy(s) == Step(s, DefaultClusterAgentNetworkPolicy(s.n),
                               "NetworkPolicy", EmptyNetworkPolicySpec)
      Return(s) == IF s.ok THEN s
                   ELSE [n |-> s.n, ov |-> EmptyClusterAgentSpec, ok |-> FALSE]
  IN IF empty /\ ~BoolValue(c1.Enabled) THEN [n |-> c1, ov |-> c1, ok |-> TRUE]
     ELSE IF ~BoolValue(c2.Enabled) THEN [n |-> c2, ov |-> o2, ok |-> TRUE]
     ELSE Return(NetworkPolicy(Rbac(Config(Image([n |-> c2, ov |-> o2, ok |-> TRUE])))))

\* ---------------------------------------------------- cluster checks runner
EmptyGenericContainerConfig ==
  [LogLevel |-> None, LivenessProbe |-> None, ReadinessProbe |-> None,
   HealthPort |-> None, Resources |-> None]
EmptyClusterChecksRunnerSpec ==
  [Enabled |-> None, Image |-> None, ContainerConfig |-> None, Rbac |-> None,
   NetworkPolicy |-> None]

DefaultDatadogAgentSpecClusterChecksRunnerImage(clc, name, tag) ==
  LET img0 == IF clc.Image = None THEN EmptyImageConfig ELSE Deref(clc.Image)
      rec == [Name |-> Some(name), Tag |-> Some(tag),
              PullPolicy |-> Some(defaultImagePullPolicy)]
      img1 == FillUnset(FillUnset(img0, rec), [PullSecrets |-> Some(<<>>)])
  IN [n |-> [clc EXCEPT !.Image = Some(img1)],
      ov |-> Recorded(EmptyImageConfig, img0, rec)]

DefaultDatadogAgentSpecClusterChecksRunnerConfig(clc) ==
  LET c0 == IF clc.ContainerConfig = None THEN EmptyGenericContainerConfig
            ELSE Deref(clc.ContainerConfig)
      rec == [LogLevel |-> NewStringPointer(defaultLogLevel),
              LivenessProbe |-> Some(GetDefaultLivenessProbe),
              ReadinessProbe |-> Some(GetDefaultReadinessProbe),
              HealthPort |-> NewInt32Pointer(defaultAgentHealthPort)]
      c1 == FillUnset(FillUnset(c0, rec), [Resources |-> Some(<<>>)])
  IN [n |-> [clc EXCEPT !.ContainerConfig = Some(c1)],
      ov |-> Recorded(EmptyGenericContainerConfig, c0, rec)]

DefaultDatadogClusterCheckRunnerSpecRbacConfig(clc) ==
  LET r == DefaultRbacConfig(IF clc.Rbac = None THEN EmptyRbacConfig ELSE Deref(clc.Rbac))
  IN [n |-> [clc EXCEPT !.Rbac = Some(r.n)], ov |-> r.ov]

DefaultClusterCheckRunnerNetworkPolicy(clc) ==
  LET r == DefaultNetworkPolicy(IF clc.NetworkPolicy = None THEN EmptyNetworkPolicySpec
                                ELSE Deref(clc.NetworkPolicy))
  IN [n |-> [clc EXCEPT !.NetworkPolicy = Some(r.n)], ov |-> r.ov]

DefaultDatadogAgentSpecClusterChecksRunner(clusterChecksRunner) ==
  LET empty == IsEqualStruct(clusterChecksRunner, EmptyClusterChecksRunnerSpec)
      c1 == IF empty
            THEN [clusterChecksRunner EXCEPT
                    !.Enabled = NewBoolPointer(defaultClusterChecksRunnerEnabled)]
            ELSE clusterChecksRunner
      \* line 1118: an unset Enabled of a non-empty runner defaults to true
      rec == [Enabled |-> NewBoolPointer(TRUE)]
      c2 == FillUnset(c1, rec)
      o2 == Recorded(EmptyClusterChecksRunnerSpec, c1, rec)
      Image(s) == Step(s, DefaultDatadogAgentSpecClusterChecksRunnerImage(
                            s.n, defaultAgentImageName, defaultAgentImageTag),
                       "Image", EmptyImageConfig)
      Config(s) == Step(s, DefaultDatadogAgentSpecClusterChecksRunnerConfig(s.n),
                        "ContainerConfig", EmptyGenericContainerConfig)
      Rbac(s) == Step(s, DefaultDatadogClusterCheckRunnerSpecRbacConfig(s.n),
                      "Rbac", EmptyRbacConfig)
      NetworkPolicy(s) == Step(s, DefaultClusterCheckRunnerNetworkPolicy(s.n),
                               "NetworkPolicy", EmptyNetworkPolicySpec)
      Return(s) == [n |-> s.n, ov |-> s.ov]
  IN IF empty /\ ~BoolValue(c1.Enabled) THEN [n |-> c1, ov |-> c1]
     ELSE Return(NetworkPolicy(Rbac(Config(Image([n |-> c2, ov |-> o2, ok |-> TRUE])))))


\* ------------------------------------------------------------ DatadogAgent
EmptyAgentCredentials == [UseSecretBackend |-> None]
EmptyDatadogAgentSpec ==
  [Credentials |-> None, Features |-> EmptyDatadogFeatures, Agent |-> EmptyAgentSpec,
   ClusterAgent |-> EmptyClusterAgentSpec,
   ClusterChecksRunner |-> EmptyClusterChecksRunnerSpec]

\* FeatureOverrideNetworkMonitoring with line 148 testing only that
\* Features.NetworkMonitoring is present, not that it is enabled.
FeatureOverrideNetworkMonitoringNoTrigger(spec, shadow) ==
  LET nm == spec.Features.NetworkMonitoring
      forced == [Deref(spec.Agent.SystemProbe) EXCEPT !.Enabled = NewBoolPointer(TRUE)]
      r == DefaultDatadogAgentSpecAgentSystemProbe(
             [spec.Agent EXCEPT !.SystemProbe = Some(forced)])
  IN IF /\ nm # None
        /\ (~BoolValue(spec.Agent.Enabled) \/ spec.Agent.SystemProbe # None)
     THEN IF spec.Agent.SystemProbe = None
          THEN [dda |-> spec, dso |-> shadow, ok |-> FALSE]
          ELSE [dda |-> [spec EXCEPT !.Agent = r.n],
                dso |-> [shadow EXCEPT !.Agent.SystemProbe =
                           Some([r.ov EXCEPT !.Enabled = NewBoolPointer(TRUE)])],
                ok |-> TRUE]
     ELSE [dda |-> spec, dso |-> shadow, ok |-> TRUE]

\* FeatureOverride, lines 148-155.  ok is FALSE when line 151 writes through a
\* nil Agent.SystemProbe.
FeatureOverrideNetworkMonitoring(spec, shadow) ==
  LET nm == spec.Features.NetworkMonitoring
      forced == [Deref(spec.Agent.SystemProbe) EXCEPT !.Enabled = NewBoolPointer(TRUE)]
      r == DefaultDatadogAgentSpecAgentSystemProbe(
             [spec.Agent EXCEPT !.SystemProbe = Some(forced)])
  IN IF /\ nm # None /\ BoolValue(Deref(nm).Enabled)
        /\ (~BoolValue(spec.Agent.Enabled) \/ spec.Agent.SystemProbe # None)
     THEN IF spec.Agent.SystemProbe = None
          THEN [dda |-> spec, dso |-> shadow, ok |-> FALSE]
          ELSE [dda |-> [spec EXCEPT !.Agent = r.n],
                dso |-> [shadow EXCEPT !.Agent.SystemProbe =
                           Some([r.ov EXCEPT !.Enabled = NewBoolPointer(TRUE)])],
                ok |-> TRUE]
     ELSE [dda |-> spec, dso |-> shadow, ok |-> TRUE]

\* FeatureOverride, lines 156-162.  ok is FALSE when line 158 writes through a
\* nil Agent.Process.
FeatureOverrideOrchestratorExplorer(spec, shadow) ==
  LET oe == spec.Features.OrchestratorExplorer
      forced == [Deref(spec.Agent.Process) EXCEPT !.Enabled = NewBoolPointer(TRUE)]
      r == DefaultDatadogAgentSpecAgentProcess([spec.Agent EXCEPT !.Process = Some(forced)])
  IN IF /\ oe # None /\ BoolValue(Deref(oe).Enabled)
        /\ (~BoolValue(spec.Agent.Enabled) \/ spec.Agent.Process # None)
     THEN IF spec.Agent.Process = None
          THEN [dda |-> spec, dso |-> shadow, ok |-> FALSE]
          ELSE [dda |-> [spec EXCEPT !.Agent = r.n],
                dso |-> [shadow EXCEPT !.Agent.Process =
                           Some([r.ov EXCEPT !.Enabled = NewBoolPointer(TRUE)])],
                ok |-> TRUE]
     ELSE [dda |-> spec, dso |-> shadow, ok |-> TRUE]

FeatureOverride(spec, shadow) ==
  LET Second(a) == IF ~a.ok THEN a ELSE FeatureOverrideOrchestratorExplorer(a.dda, a.dso)
  IN Second(FeatureOverrideNetworkMonitoring(spec, shadow))

\* DefaultDatadogAgent, lines 132-140.
DefaultCredentials(spec, shadow) ==
  LET c0 == IF spec.Credentials = None THEN EmptyAgentCredentials
            ELSE Deref(spec.Credentials)
      rec == [UseSecretBackend |-> NewBoolPointer(FALSE)]
  IN [dda |-> [spec EXCEPT !.Credentials = Some(FillUnset(c0, rec))],
      dso |-> IF c0.UseSecretBackend = None
              THEN [shadow EXCEPT !.Credentials = Some(rec)]
              ELSE shadow]

\* =================================================== feature factory (factory.go)
\* ------------------------------------------------------- feature identifiers
\* IDType is a string; identifiers compare as strings.
EBPFCheckIDType == "ebpf_check"
CWSIDType == "cws"
CSPMIDType == "cspm"
OOMKillIDType == "oom_kill"
TCPQueueLengthIDType == "tcp_queue_length"
USMIDType == "usm"
DogstatsdIDType == "dogstatsd"
NPMIDType == "npm"
FeatureIDs ==
  {EBPFCheckIDType, CWSIDType, CSPMIDType, OOMKillIDType, TCPQueueLengthIDType,
   USMIDType, DogstatsdIDType, NPMIDType}
\* The position of each identifier in ascending string order.
IDRank ==
  [x \in FeatureIDs |->
     CASE x = "cspm" -> 1
       [] x = "cws" -> 2
       [] x = "dogstatsd" -> 3
       [] x = "ebpf_check" -> 4
       [] x = "npm" -> 5
       [] x = "oom_kill" -> 6
       [] x = "tcp_queue_length" -> 7
       [] x = "usm" -> 8]
\* sortedKeys[i] < sortedKeys[j]
IDLess(a, b) == IDRank[a] < IDRank[b]

\* lines 69-76
privilegedFeatures ==
  <<EBPFCheckIDType, CWSIDType, CSPMIDType, OOMKillIDType, TCPQueueLengthIDType,
    USMIDType>>
\* slices.Contains
Contains(s, x) == \E i \in DOMAIN s : s[i] = x

\* sort.Slice with the less function of lines 87-89 and 97-99, as an insertion
\* sort of the slice.
RECURSIVE Insert(_, _)
Insert(sorted, x) ==
  IF sorted = <<>> THEN <<x>>
  ELSE IF IDLess(x, Head(sorted)) THEN <<x>> \o sorted
  ELSE <<Head(sorted)>> \o Insert(Tail(sorted), x)
RECURSIVE SortSlice(_)
SortSlice(s) == IF s = <<>> THEN <<>> ELSE Insert(SortSlice(Tail(s)), Head(s))

\* The orders in which `for key := range featureBuilders` may visit the keys:
\* every permutation of up to MaxPermuted keys; for more keys, every rotation
\* of the ascending and of the descending order.
MaxPermuted == 4
RECURSIVE Ascending(_)
Ascending(keys) ==
  IF keys = {} THEN <<>>
  ELSE (LET Least(k) == <<k>> \o Ascending(keys \ {k})
        IN Least(CHOOSE k \in keys : \A o \in keys : IDRank[k] <= IDRank[o]))
Reverse(s) == [i \in DOMAIN s |-> s[Len(s) + 1 - i]]
Rotations(s) ==
  {[i \in DOMAIN s |-> s[((i + r) % Len(s)) + 1]] : r \in 0..(Len(s) - 1)}
MapRangeOrders(keys) ==
  IF Cardinality(keys) <= MaxPermuted
  THEN {p \in [1..Cardinality(keys) -> keys] : \A i, j \in DOMAIN p : p[i] = p[j] => i = j}
  ELSE Rotations(Ascending(keys)) \cup Rotations(Reverse(Ascending(keys)))

\* getSortedFeatureIDs sorting every key together whatever the mode.
getSortedFeatureIDsNoPartition(builders, order, useMulti) == SortSlice(order)

\* getSortedFeatureIDs without the sort.Slice calls.
getSortedFeatureIDsUnsorted(builders, order, useMulti) ==
  LET NotPrivileged(key) == ~Contains(privilegedFeatures, key)
  IN IF useMulti
     THEN SelectSeq(order, NotPrivileged) \o privilegedFeatures
     ELSE order

\* getSortedFeatureIDs, lines 78-102.  builders is featureBuilders, order the
\* order in which the range loops visit its keys.
getSortedFeatureIDs(builders, order, useMulti) ==
  LET NotPrivileged(key) == ~Contains(privilegedFeatures, key)
  IN IF useMulti
     THEN SortSlice(SelectSeq(order, NotPrivileged)) \o privilegedFeatures
     ELSE SortSlice(order)

\* ------------------------------------------------------- RequiredComponents
\* A component requirement: enabled is a tri-state ({} unspecified), privileged
\* a flag.
Unspecified == [enabled |-> None, privileged |-> FALSE]
\* The component kinds a requirement speaks of.
ComponentKinds == {"Agent", "ClusterAgent", "ClusterChecksRunner"}
NoRequirement == [k \in ComponentKinds |-> Unspecified]
IsEnabled(c) == BoolValue(c.enabled)
IsPrivileged(c) == c.privileged
IsConfiguredComponent(c) == c.enabled # None
\* RequiredComponents.IsConfigured: one of the components is configured.
IsConfigured(rc) == \E k \in ComponentKinds : IsConfiguredComponent(rc[k])
\* A merge where a specified incoming enabled replaces the accumulated one.
MergeComponentLastWins(acc, in) ==
  [enabled |-> IF in.enabled # None THEN in.enabled ELSE acc.enabled,
   privileged |-> acc.privileged \/ in.privileged]

\* RequiredComponent.Merge
MergeComponent(acc, in) ==
  [enabled |-> IF IsEnabled(acc) \/ IsEnabled(in) THEN {TRUE}
               ELSE IF acc.enabled = {FALSE} \/ in.enabled = {FALSE} THEN {FALSE}
               ELSE None,
   privileged |-> acc.privileged \/ in.privileged]
\* RequiredComponents.Merge
Merge(acc, in) == [k \in ComponentKinds |-> MergeComponent(acc[k], in[k])]

\* lines 104-106
shouldDisableMultiProcessContainer(reqComponents) ==
  IsEnabled(reqComponents.Agent) /\ IsPrivileged(reqComponents.Agent)

\* Lines 56-58 setting the flag from the requirement alone.
UseMultiProcessContainerRecomputed(useMulti, reqComponents) ==
  ~shouldDisableMultiProcessContainer(reqComponents)

\* Lines 56-58 clearing the flag on a privileged requirement, enabled or not.
UseMultiProcessContainerAfterPrivileged(useMulti, reqComponents) ==
  IF useMulti /\ IsPrivileged(reqComponents.Agent) THEN FALSE ELSE useMulti

\* BuildFeatures, lines 56-58: useMultiProcessContainer after the iteration.
UseMultiProcessContainerAfter(useMulti, reqComponents) ==
  IF useMulti /\ shouldDisableMultiProcessContainer(reqComponents) THEN FALSE
  ELSE useMulti

\* Line 63 assigning the feature's requirement instead of merging it.
RequiredComponentsAfterAssign(acc, reqComponents) == reqComponents

\* BuildFeatures, line 63: the accumulator after the iteration.
RequiredComponentsAfter(acc, reqComponents) == Merge(acc, reqComponents)

\* Lines 60-62 keeping a feature only when one of its components is enabled.
OutputAfterIfEnabled(out, feat, reqComponents) ==
  IF \E k \in ComponentKinds : IsEnabled(reqComponents[k])
  THEN Append(out, feat)
  ELSE out

\* BuildFeatures, lines 60-62: output after the iteration.
OutputAfter(out, feat, reqComponents) ==
  IF IsConfigured(reqComponents) THEN Append(out, feat) ELSE out

\* RequiredComponents.IsEnabled: one of the components is enabled.
IsEnabledComponents(rc) == \E k \in ComponentKinds : IsEnabled(rc[k])

\* Lines 129-131 keeping a feature when one of its components is configured.
OutputAfterV1IfConfigured(out, feat, config) ==
  IF IsConfigured(config) THEN Append(out, feat) ELSE out

\* BuildFeaturesV1, lines 129-131: output after the iteration.
OutputAfterV1(out, feat, config) ==
  IF IsEnabledComponents(config) THEN Append(out, feat) ELSE out

\* BuildFeaturesV1, lines 117-123: the keys of the registry, sorted.
SortedKeysV1(order) == SortSlice(order)

\* ------------------------------------------------- features and desired specs
\* The requirements a feature may answer.
AgentOn == [NoRequirement EXCEPT !.Agent.enabled = {TRUE}]
AgentOff == [NoRequirement EXCEPT !.Agent.enabled = {FALSE}]
AgentOnPrivileged ==
  [NoRequirement EXCEPT !.Agent = [enabled |-> {TRUE}, privileged |-> TRUE]]
AgentPrivilegedOnly == [NoRequirement EXCEPT !.Agent.privileged = TRUE]
ClusterAgentOn == [NoRequirement EXCEPT !.ClusterAgent.enabled = {TRUE}]
ClusterChecksRunnerOff == [NoRequirement EXCEPT !.ClusterChecksRunner.enabled = {FALSE}]

\* What each feature asks for under the desired specs the model draws from.
\* "split": enabled and privileged for the node agent come from two features.
\* "cws": CWS enabled and privileged on the node agent, after a feature that
\* asks for privileges only.  "plain": nothing privileged.
Profiles ==
  [split |-> [x \in FeatureIDs |->
                CASE x = DogstatsdIDType -> AgentOn
                  [] x = NPMIDType -> AgentPrivilegedOnly
                  [] x = CWSIDType -> ClusterAgentOn
                  [] OTHER -> NoRequirement],
   cws |-> [x \in FeatureIDs |->
              CASE x = DogstatsdIDType -> AgentOn
                [] x = NPMIDType -> AgentPrivilegedOnly
                [] x = CWSIDType -> AgentOnPrivileged
                [] x = USMIDType -> ClusterAgentOn
                [] OTHER -> NoRequirement],
   plain |-> [x \in FeatureIDs |->
                CASE x = DogstatsdIDType -> AgentOff
                  [] x = NPMIDType -> AgentOn
                  [] x = CSPMIDType -> ClusterAgentOn
                  [] x = TCPQueueLengthIDType -> AgentOff
                  [] x = USMIDType -> ClusterChecksRunnerOff
                  [] OTHER -> NoRequirement]]

\* The constructors a feature may be registered with: BuildNoop builds a
\* feature that never asks for anything.
BuildFuncs == {"Build", "BuildNoop"}
\* featureBuilders[id](options)
NewFeature(id, buildFunc) == [id |-> id, build |-> buildFunc]
\* feat.Configure(dda, useMultiProcessContainer)
Configure(feat, ddaV2, useMulti) ==
  IF feat.build = "BuildNoop" THEN NoRequirement ELSE Profiles[ddaV2.profile][feat.id]

\* feat.ConfigureV1(dda)
ConfigureV1(feat, ddaV1) ==
  IF feat.build = "BuildNoop" THEN NoRequirement ELSE Profiles[ddaV1.profile][feat.id]
\* The v1alpha1 desired specs BuildFeaturesV1 is called with.
DesiredSpecsV1 == {[profile |-> p] : p \in {"cws", "plain"}}

\* Desired specs: Spec.Global.ContainerProcessModel.UseMultiProcessContainer
\* as a pointer, and the profile of what the features ask for.
DesiredSpecs ==
  {[UseMultiProcessContainer |-> m, profile |-> p] :
     m \in {{TRUE}}, p \in {"split", "cws", "plain"}}
  \cup {[UseMultiProcessContainer |-> None, profile |-> "cws"],
        [UseMultiProcessContainer |-> {FALSE}, profile |-> "plain"]}
\* The (id, constructor) pairs Register is called with.
Registrations ==
  {<<id, "Build">> : id \in FeatureIDs}
  \cup {<<DogstatsdIDType, "BuildNoop">>, <<CWSIDType, "BuildNoop">>}
\* The orders in which the features register themselves for the first time
\* (the initialization order of their packages); a registered identifier may
\* be registered again at any time.
RegistrationOrders ==
  {<<CSPMIDType, CWSIDType, DogstatsdIDType, EBPFCheckIDType, NPMIDType, OOMKillIDType,
     TCPQueueLengthIDType, USMIDType>>,
   <<USMIDType, NPMIDType, EBPFCheckIDType, TCPQueueLengthIDType, DogstatsdIDType,
     CWSIDType, OOMKillIDType, CSPMIDType>>,
   <<DogstatsdIDType, NPMIDType, EBPFCheckIDType, CWSIDType, CSPMIDType, OOMKillIDType,
     USMIDType, TCPQueueLengthIDType>>}
MayRegister(builders, id) ==
  \/ id \in DOMAIN builders
  \/ \E o \in RegistrationOrders :
       \E n \in 0..(Len(o) - 1) :
         /\ {o[i] : i \in 1..n} = DOMAIN builders
         /\ id = o[n + 1]

\* Register, lines 25-34, overwriting the constructor of a registered id.
RegisterOverwriting(builders, id, buildFunc) ==
  [builders |-> [k \in DOMAIN builders \cup {id} |->
                   IF k = id THEN buildFunc ELSE builders[k]],
   err |-> id \in DOMAIN builders]

\* Register, lines 25-34: the registry after the call and whether an error is
\* returned.
Register(builders, id, buildFunc) ==
  IF id \in DOMAIN builders
  THEN [builders |-> builders, err |-> TRUE]
  ELSE [builders |-> [k \in DOMAIN builders \cup {id} |->
                        IF k = id THEN buildFunc ELSE builders[k]],
        err |-> FALSE]

\* No call recorded.
NoCall == [made |-> FALSE]
\* Number of BuildFeatures calls made.
MaxCalls == 2

\* ------------------------------------------------------------------- state
VARIABLES
  input,   \* the spec as the user wrote it
  before,  \* dda.Spec when the current DefaultDatadogAgent call started
  dda,     \* dda.Spec, mutated in place
  dso,     \* dso.DefaultOverride of the current call
  status,  \* the DefaultOverride returned by the last completed call
  run,     \* number of the current DefaultDatadogAgent call, from 1
  pc,      \* the statement of DefaultDatadogAgent to execute next
  featureBuilders,           \* the registry: identifier -> constructor
  registered,                \* the last Register call and what it returned
  ddaV2,                     \* the desired spec of the current BuildFeatures call
  useMultiProcessContainer,  \* the flag of BuildFeatures
  sortedKeys,                \* the resolution order of the current call
  idx,                       \* position of the loop of line 53 in sortedKeys
  output,                    \* the features to return
  requiredComponents,        \* the accumulator
  configured,                \* the Configure calls made: identifier and flag passed
  fpc,                       \* where BuildFeatures is: idle, loop, panic
  calls,                     \* number of BuildFeatures calls started
  lastCall,                  \* what the last BuildFeatures call returned
  prevCall,                  \* what the BuildFeatures call before it returned
  ddaV1,                     \* the desired spec of the current BuildFeaturesV1 call
  operands,                  \* three requirements to merge
  merged,                    \* the results of merging them
  builderMutex,              \* the registry lock: writer held, number of readers
  procs,                     \* the concurrent callers: position and locals of each
  registryAtStart            \* the registry when the concurrent callers start
dvars == <<input, before, dda, dso, status, run, pc>>
fvars == <<featureBuilders, registered, ddaV2, useMultiProcessContainer, sortedKeys, idx,
           output, requiredComponents, configured, fpc, calls, lastCall, prevCall>>
mvars == <<operands, merged>>
cvars == <<builderMutex, procs, registryAtStart>>
xvars == <<ddaV1, mvars, cvars>>
vars == <<dvars, fvars, xvars>>

\* ------------------------------------------------------------------ inputs
On(e) == Some([e EXCEPT !.Enabled = NewBoolPointer(TRUE)])
Off(e) == Some([e EXCEPT !.Enabled = NewBoolPointer(FALSE)])

OrchestratorExplorerInputs ==
  {None, Some(EmptyOrchestratorExplorerConfig), On(EmptyOrchestratorExplorerConfig),
   Off(EmptyOrchestratorExplorerConfig),
   Some([EmptyOrchestratorExplorerConfig EXCEPT !.Scrubbing = Some(EmptyScrubbing)])}
NetworkMonitoringInputs ==
  {None, On(EmptyNetworkMonitoringConfig), Off(EmptyNetworkMonitoringConfig)}
OtherFeaturesInputs ==
  {[LogCollection |-> None, KubeStateMetricsCore |-> None, PrometheusScrape |-> None],
   [LogCollection |-> On(EmptyLogCollectionConfig),
    KubeStateMetricsCore |-> On(EmptyKubeStateMetricsCore),
    PrometheusScrape |-> On(EmptyPrometheusScrapeConfig)],
   [LogCollection |-> Off(EmptyLogCollectionConfig),
    KubeStateMetricsCore |-> Some(EmptyKubeStateMetricsCore),
    PrometheusScrape |-> Some(EmptyPrometheusScrapeConfig)]}
FeaturesInputs ==
  {[OrchestratorExplorer |-> oe, NetworkMonitoring |-> nm,
    LogCollection |-> o.LogCollection, KubeStateMetricsCore |-> o.KubeStateMetricsCore,
    PrometheusScrape |-> o.PrometheusScrape] :
     oe \in OrchestratorExplorerInputs, nm \in NetworkMonitoringInputs,
     o \in OtherFeaturesInputs}

SystemProbeInputs ==
  {None, Some(EmptySystemProbeSpec), Off(EmptySystemProbeSpec),
   Some([EmptySystemProbeSpec EXCEPT !.Enabled = NewBoolPointer(TRUE),
                                     !.SecCompRootPath = Some("/custom/seccomp")])}
ProcessInputs ==
  {None, Some(EmptyProcessSpec), On(EmptyProcessSpec), Off(EmptyProcessSpec)}
AgentCoreInputs ==
  {[EmptyAgentSpec EXCEPT !.Enabled = en, !.SystemProbe = sp, !.Process = pr] :
     en \in {None, {TRUE}, {FALSE}}, sp \in SystemProbeInputs, pr \in ProcessInputs}
AgentRestInputs ==
  {[Image |-> None, NodeAgent |-> None, Security |-> None, Apm |-> None],
   [Image |-> Some([EmptyImageConfig EXCEPT !.Name = Some("agent:7.26.0")]),
    NodeAgent |-> Some([EmptyNodeAgentSpec EXCEPT
                          !.ContainerConfig.LogLevel = Some("DEBUG"),
                          !.ContainerConfig.HealthPort = Some(8080)]),
    Security |-> None,
    Apm |-> On(EmptyAPMSpec)],
   [Image |-> Some([EmptyImageConfig EXCEPT !.Tag = Some("7.26.0")]),
    NodeAgent |-> None,
    Security |-> Some([EmptySecuritySpec EXCEPT
                         !.Runtime.SyscallMonitor = Some(EmptySyscallMonitorSpec)]),
    Apm |-> Some([EmptyAPMSpec EXCEPT
                    !.UnixDomainSocket = On(EmptyAPMUnixDomainSocketSpec)])],
   [Image |-> Some([EmptyImageConfig EXCEPT !.Tag = Some("7.26.0")]),
    NodeAgent |-> None, Security |-> None, Apm |-> None],
   [Image |-> Some([EmptyImageConfig EXCEPT !.Name = Some("agent:7.26.0"),
                                            !.Tag = Some("7.26.0")]),
    NodeAgent |-> None, Security |-> None, Apm |-> None],
   [Image |-> Some([EmptyImageConfig EXCEPT !.Name = Some("agent:6.26.0"),
                                            !.Tag = Some("6.26.0")]),
    NodeAgent |-> None, Security |-> None, Apm |-> Off(EmptyAPMSpec)]}
AgentFullInputs ==
  {[a EXCEPT !.Image = r.Image, !.NodeAgent = r.NodeAgent, !.Security = r.Security,
             !.Apm = r.Apm] :
     a \in {x \in AgentCoreInputs : x.Process = None \/ x.SystemProbe = None},
     r \in AgentRestInputs}

UserClusterAgentConfig ==
  [ContainerConfig |-> [EmptyClusterAgentContainerConfig EXCEPT
                          !.LogLevel = Some("DEBUG"), !.HealthPort = Some(8080)],
   Features |-> [EmptyFeaturesConfigClusterAgent EXCEPT
                   !.ExternalMetrics = Some([Enabled |-> {TRUE}, Port |-> {9443}]),
                   !.AdmissionController = On(EmptyAdmissionControllerConfig)]]
ClusterAgentInputs ==
  {EmptyClusterAgentSpec,
   [EmptyClusterAgentSpec EXCEPT !.Enabled = {FALSE}],
   [EmptyClusterAgentSpec EXCEPT !.Enabled = {TRUE}],
   [EmptyClusterAgentSpec EXCEPT !.Config = Some(UserClusterAgentConfig)],
   [EmptyClusterAgentSpec EXCEPT !.Config = Some(UserClusterAgentConfig),
                                 !.CustomConfig = Some("configData")],
   [EmptyClusterAgentSpec EXCEPT !.CustomConfig = Some("configData")],
   [EmptyClusterAgentSpec EXCEPT
      !.Config = Some([UserClusterAgentConfig EXCEPT
                         !.Features.ExternalMetrics = Off(EmptyExternalMetricsConfig),
                         !.Features.AdmissionController =
                            Off(EmptyAdmissionControllerConfig)]),
      !.CustomConfig = Some("configData")]}
ClusterChecksRunnerInputs ==
  {EmptyClusterChecksRunnerSpec,
   [EmptyClusterChecksRunnerSpec EXCEPT !.Enabled = {TRUE}],
   [EmptyClusterChecksRunnerSpec EXCEPT !.Enabled = {FALSE}],
   [EmptyClusterChecksRunnerSpec EXCEPT !.Rbac = Some([Create |-> {FALSE}])]}
CredentialsInputs == {None, Some([UseSecretBackend |-> {TRUE}])}

\* The specs the model starts from: every combination of the features, the
\* node agent's Enabled / SystemProbe / Process and the cluster checks runner,
\* and every combination of the other node-agent subtrees, the cluster agent
\* and the credentials.
InputSpecs ==
  {[EmptyDatadogAgentSpec EXCEPT !.Features = f, !.Agent = a, !.ClusterChecksRunner = c] :
     f \in FeaturesInputs, a \in AgentCoreInputs, c \in ClusterChecksRunnerInputs}
  \cup
  {[EmptyDatadogAgentSpec EXCEPT !.Agent = a, !.ClusterAgent = ca, !.Credentials = cr] :
     a \in AgentFullInputs, ca \in ClusterAgentInputs, cr \in CredentialsInputs}

\* The factory before any Register or BuildFeatures call (init, lines 20-22).
FactoryCallsIdle ==
  /\ registered = NoCall
  /\ ddaV2 = [UseMultiProcessContainer |-> None, profile |-> "plain"]
  /\ useMultiProcessContainer = FALSE
  /\ sortedKeys = <<>>
  /\ idx = 1
  /\ output = <<>>
  /\ requiredComponents = NoRequirement
  /\ configured = <<>>
  /\ fpc = "idle"
  /\ calls = 0
  /\ lastCall = NoCall
  /\ prevCall = NoCall

\* init, lines 20-22, and no call made yet.
FactoryInit ==
  /\ featureBuilders = <<>>
  /\ FactoryCallsIdle

\* Nothing is being merged and no concurrent caller runs.
MergeIdle ==
  /\ operands = <<NoRequirement, NoRequirement, NoRequirement>>
  /\ merged = <<>>
ConcurrentIdle ==
  /\ builderMutex = [w |-> FALSE, r |-> 0]
  /\ procs = <<>>
  /\ registryAtStart = <<>>
V1Idle == ddaV1 = [profile |-> "plain"]

\* The defaulting side does not run.
DefaultingIdle ==
  /\ input = EmptyDatadogAgentSpec
  /\ before = EmptyDatadogAgentSpec
  /\ dda = EmptyDatadogAgentSpec
  /\ dso = EmptyDatadogAgentSpec
  /\ status = EmptyDatadogAgentSpec
  /\ run = 1
  /\ pc = "idle"

Init ==
  /\ FactoryInit
  /\ V1Idle /\ MergeIdle /\ ConcurrentIdle
  /\ input \in InputSpecs
  /\ before = input
  /\ dda = input
  /\ dso = EmptyDatadogAgentSpec
  /\ status = EmptyDatadogAgentSpec
  /\ run = 1
  /\ pc = "FeatureOverride"

\* ----------------------------------------------------------------- actions
\* line 116
CallFeatureOverride ==
  /\ pc = "FeatureOverride"
  /\ \E r \in {FeatureOverride(dda, dso)} :
        /\ dda' = r.dda
        /\ dso' = r.dso
        /\ pc' = IF r.ok THEN "DefaultFeatures" ELSE "panic"
  /\ UNCHANGED <<input, before, status, run, fvars, xvars>>

\* line 120
CallDefaultFeatures ==
  /\ pc = "DefaultFeatures"
  /\ \E r \in {DefaultFeatures(dda)} :
        /\ dda' = r.n
        /\ dso' = IF r.ok THEN [dso EXCEPT !.Features = r.ov] ELSE dso
        /\ pc' = IF r.ok THEN "ClusterAgent" ELSE "panic"
  /\ UNCHANGED <<input, before, status, run, fvars, xvars>>

\* line 123
CallDefaultClusterAgent ==
  /\ pc = "ClusterAgent"
  /\ \E r \in {DefaultDatadogAgentSpecClusterAgent(dda.ClusterAgent)} :
        /\ dda' = [dda EXCEPT !.ClusterAgent = r.n]
        /\ dso' = IF r.ok THEN [dso EXCEPT !.ClusterAgent = r.ov] ELSE dso
        /\ pc' = IF r.ok THEN "Agent" ELSE "panic"
  /\ UNCHANGED <<input, before, status, run, fvars, xvars>>

\* line 126
CallDefaultAgent ==
  /\ pc = "Agent"
  /\ \E r \in {DefaultDatadogAgentSpecAgent(dda.Agent)} :
        /\ dda' = [dda EXCEPT !.Agent = r.n]
        /\ dso' = IF r.ok THEN [dso EXCEPT !.Agent = r.ov] ELSE dso
        /\ pc' = IF r.ok THEN "ClusterChecksRunner" ELSE "panic"
  /\ UNCHANGED <<input, before, status, run, fvars, xvars>>

\* line 129
CallDefaultClusterChecksRunner ==
  /\ pc = "ClusterChecksRunner"
  /\ \E r \in {DefaultDatadogAgentSpecClusterChecksRunner(dda.ClusterChecksRunner)} :
        /\ dda' = [dda EXCEPT !.ClusterChecksRunner = r.n]
        /\ dso' = [dso EXCEPT !.ClusterChecksRunner = r.ov]
  /\ pc' = "Credentials"
  /\ UNCHANGED <<input, before, status, run, fvars, xvars>>

\* lines 131-142
CredentialsAndReturn ==
  /\ pc = "Credentials"
  /\ \E r \in {DefaultCredentials(dda, dso)} :
        /\ dda' = r.dda
        /\ dso' = r.dso
        /\ status' = r.dso
  /\ pc' = "done"
  /\ UNCHANGED <<input, before, run, fvars, xvars>>

\* The caller runs DefaultDatadogAgent again on the same object.
CallAgain ==
  /\ pc = "done"
  /\ run < MaxRuns
  /\ run' = run + 1
  /\ before' = dda
  /\ dso' = EmptyDatadogAgentSpec
  /\ pc' = "FeatureOverride"
  /\ UNCHANGED <<input, dda, status, fvars, xvars>>

Next ==
  \/ CallFeatureOverride
  \/ CallDefaultFeatures
  \/ CallDefaultClusterAgent
  \/ CallDefaultAgent
  \/ CallDefaultClusterChecksRunner
  \/ CredentialsAndReturn
  \/ CallAgain

Spec == Init /\ [][Next]_vars

\* ------------------------------------------------ feature factory: actions
InitFactory == DefaultingIdle /\ FactoryInit /\ V1Idle /\ MergeIdle /\ ConcurrentIdle

\* Register(id, buildFunc), lines 25-34, under the write lock: no BuildFeatures
\* call is running.  The records of earlier BuildFeatures calls are dropped
\* when the registry changes.
CallRegister ==
  /\ fpc = "idle"
  /\ \E reg \in {x \in Registrations : MayRegister(featureBuilders, x[1])} :
       \E r \in {Register(featureBuilders, reg[1], reg[2])} :
         /\ featureBuilders' = r.builders
         /\ registered' = [made |-> TRUE, id |-> reg[1], buildFunc |-> reg[2],
                           err |-> r.err]
         /\ lastCall' = IF r.err THEN lastCall ELSE NoCall
         /\ prevCall' = IF r.err THEN prevCall ELSE NoCall
  /\ UNCHANGED <<ddaV2, useMultiProcessContainer, sortedKeys, idx, output,
                 requiredComponents, configured, fpc, calls, dvars, xvars>>

\* BuildFeatures, lines 37-51: the flag is read from the desired spec and the
\* identifiers are sorted.
BuildFeaturesBegin ==
  /\ fpc = "idle"
  /\ calls < MaxCalls
  /\ \E d \in DesiredSpecs, order \in MapRangeOrders(DOMAIN featureBuilders) :
       /\ ddaV2' = d
       /\ useMultiProcessContainer' = BoolValue(d.UseMultiProcessContainer)
       /\ sortedKeys' = getSortedFeatureIDs(featureBuilders, order,
                                            BoolValue(d.UseMultiProcessContainer))
  /\ idx' = 1
  /\ output' = <<>>
  /\ requiredComponents' = NoRequirement
  /\ configured' = <<>>
  /\ registered' = NoCall
  /\ fpc' = "loop"
  /\ calls' = calls + 1
  /\ UNCHANGED <<featureBuilders, lastCall, prevCall, dvars, xvars>>

\* One iteration of the loop of lines 53-64.
BuildFeaturesIterate ==
  /\ fpc = "loop"
  /\ idx <= Len(sortedKeys)
  /\ sortedKeys[idx] \in DOMAIN featureBuilders
  /\ \E feat \in {NewFeature(sortedKeys[idx], featureBuilders[sortedKeys[idx]])} :
       \E reqComponents \in {Configure(feat, ddaV2, useMultiProcessContainer)} :
         /\ configured' = Append(configured,
                                 [id |-> feat.id, flag |-> useMultiProcessContainer])
         /\ useMultiProcessContainer' =
              UseMultiProcessContainerAfter(useMultiProcessContainer, reqComponents)
         /\ output' = OutputAfter(output, feat, reqComponents)
         /\ requiredComponents' = RequiredComponentsAfter(requiredComponents, reqComponents)
  /\ idx' = idx + 1
  /\ UNCHANGED <<featureBuilders, registered, ddaV2, sortedKeys, fpc, calls, lastCall,
                 prevCall, dvars, xvars>>

\* Line 54 calls the nil constructor of an identifier that is not registered.
BuildFeaturesNilConstructor ==
  /\ fpc = "loop"
  /\ idx <= Len(sortedKeys)
  /\ sortedKeys[idx] \notin DOMAIN featureBuilders
  /\ fpc' = "panic"
  /\ UNCHANGED <<featureBuilders, registered, ddaV2, useMultiProcessContainer, sortedKeys,
                 idx, output, requiredComponents, configured, calls, lastCall, prevCall,
                 dvars, xvars>>

\* Line 66.  The call is recorded with the registry it ran on, and its local
\* variables end.
BuildFeaturesReturn ==
  /\ fpc = "loop"
  /\ idx > Len(sortedKeys)
  /\ fpc' = "idle"
  /\ prevCall' = lastCall
  /\ lastCall' = [made |-> TRUE, registry |-> featureBuilders, ddaV2 |-> ddaV2,
                  order |-> sortedKeys, output |-> output,
                  requiredComponents |-> requiredComponents, configured |-> configured]
  /\ ddaV2' = [UseMultiProcessContainer |-> None, profile |-> "plain"]
  /\ useMultiProcessContainer' = FALSE
  /\ sortedKeys' = <<>>
  /\ idx' = 1
  /\ output' = <<>>
  /\ requiredComponents' = NoRequirement
  /\ configured' = <<>>
  /\ UNCHANGED <<featureBuilders, registered, calls, dvars, xvars>>

\* BuildFeaturesV1, lines 109-123: the identifiers are sorted.
BuildFeaturesV1Begin ==
  /\ fpc = "idle"
  /\ calls < MaxCalls
  /\ \E d \in DesiredSpecsV1, order \in MapRangeOrders(DOMAIN featureBuilders) :
       /\ ddaV1' = d
       /\ sortedKeys' = SortedKeysV1(order)
  /\ idx' = 1
  /\ output' = <<>>
  /\ requiredComponents' = NoRequirement
  /\ configured' = <<>>
  /\ registered' = NoCall
  /\ fpc' = "loopV1"
  /\ calls' = calls + 1
  /\ UNCHANGED <<featureBuilders, ddaV2, useMultiProcessContainer, lastCall, prevCall,
                 dvars, mvars, cvars>>

\* One iteration of the loop of lines 125-133.
BuildFeaturesV1Iterate ==
  /\ fpc = "loopV1"
  /\ idx <= Len(sortedKeys)
  /\ \E feat \in {NewFeature(sortedKeys[idx], featureBuilders[sortedKeys[idx]])} :
       \E config \in {ConfigureV1(feat, ddaV1)} :
         /\ configured' = Append(configured, [id |-> feat.id, flag |-> FALSE])
         /\ output' = OutputAfterV1(output, feat, config)
         /\ requiredComponents' = RequiredComponentsAfter(requiredComponents, config)
  /\ idx' = idx + 1
  /\ UNCHANGED <<featureBuilders, registered, ddaV2, useMultiProcessContainer, sortedKeys,
                 fpc, calls, lastCall, prevCall, dvars, xvars>>

\* line 135
BuildFeaturesV1Return ==
  /\ fpc = "loopV1"
  /\ idx > Len(sortedKeys)
  /\ fpc' = "idle"
  /\ ddaV1' = [profile |-> "plain"]
  /\ sortedKeys' = <<>>
  /\ idx' = 1
  /\ output' = <<>>
  /\ requiredComponents' = NoRequirement
  /\ configured' = <<>>
  /\ UNCHANGED <<featureBuilders, registered, ddaV2, useMultiProcessContainer, calls,
                 lastCall, prevCall, dvars, mvars, cvars>>

NextFactory ==
  \/ CallRegister
  \/ BuildFeaturesBegin
  \/ BuildFeaturesIterate
  \/ BuildFeaturesNilConstructor
  \/ BuildFeaturesReturn
  \/ BuildFeaturesV1Begin
  \/ BuildFeaturesV1Iterate
  \/ BuildFeaturesV1Return

SpecFactory == InitFactory /\ [][NextFactory]_vars

\* --------------------------------------------------- concurrent callers
\* builderMutex.Lock() returning although a writer holds the lock.
MayLockBesideWriter(mutex) == mutex.r = 0
\* builderMutex.Lock(), line 26: may return when nobody holds the lock.
MayLock(mutex) == ~mutex.w /\ mutex.r = 0
\* builderMutex.RLock() returning although a writer holds the lock.
MayRLockBesideWriter(mutex) == TRUE
\* builderMutex.RLock(), lines 38 and 110: may return when no writer holds the
\* lock.  (A waiting writer also holds new readers back; leaving that out
\* only adds interleavings.)
MayRLock(mutex) == ~mutex.w

\* The goroutines: two call Register, two call BuildFeatures.
Registrars == {"register1", "register2"}
Builders == {"build1", "build2"}
\* What the concurrent Register calls are called with.
ConcurrentRegistrations ==
  {<<CWSIDType, "Build">>, <<CWSIDType, "BuildNoop">>, <<NPMIDType, "Build">>,
   <<DogstatsdIDType, "BuildNoop">>}
\* The registries the concurrent callers start from: the node-agent basics
\* only, or everything but cws and npm.
RegistriesAtStart ==
  {[k \in {DogstatsdIDType} |-> "Build"],
   [k \in FeatureIDs \ {CWSIDType, NPMIDType} |-> "Build"]}
\* The desired specs of the concurrent BuildFeatures calls.
ConcurrentDesiredSpecs ==
  {[UseMultiProcessContainer |-> {TRUE}, profile |-> "cws"],
   [UseMultiProcessContainer |-> None, profile |-> "plain"]}

RegistrarAtStart(reg) ==
  [pc |-> "start", id |-> reg[1], buildFunc |-> reg[2], found |-> FALSE, err |-> FALSE]
BuilderAtStart(d) ==
  [pc |-> "start", dda |-> d, useMultiProcessContainer |-> FALSE, sortedKeys |-> <<>>,
   idx |-> 1, output |-> <<>>, requiredComponents |-> NoRequirement,
   locked |-> <<>>]

InitConcurrent ==
  /\ DefaultingIdle /\ FactoryCallsIdle /\ V1Idle /\ MergeIdle
  /\ builderMutex = [w |-> FALSE, r |-> 0]
  /\ registryAtStart \in RegistriesAtStart
  /\ featureBuilders = registryAtStart
  /\ \E r1, r2 \in ConcurrentRegistrations, d1, d2 \in ConcurrentDesiredSpecs :
       procs = [p \in Registrars \cup Builders |->
                  CASE p = "register1" -> RegistrarAtStart(r1)
                    [] p = "register2" -> RegistrarAtStart(r2)
                    [] p = "build1" -> BuilderAtStart(d1)
                    [] p = "build2" -> BuilderAtStart(d2)]

\* What no concurrent step changes.
ConcurrentFrame ==
  UNCHANGED <<registered, ddaV2, useMultiProcessContainer, sortedKeys, idx, output,
              requiredComponents, configured, fpc, calls, lastCall, prevCall,
              dvars, ddaV1, mvars, registryAtStart>>

\* Register, line 26
RegisterLock(p) ==
  /\ procs[p].pc = "start"
  /\ MayLock(builderMutex)
  /\ builderMutex' = [builderMutex EXCEPT !.w = TRUE]
  /\ procs' = [procs EXCEPT ![p].pc = "check"]
  /\ UNCHANGED featureBuilders
  /\ ConcurrentFrame

\* Register, lines 29-31
RegisterCheck(p) ==
  /\ procs[p].pc = "check"
  /\ \E found \in {procs[p].id \in DOMAIN featureBuilders} :
       procs' = [procs EXCEPT ![p].found = found, ![p].err = found,
                              ![p].pc = IF found THEN "unlock" ELSE "store"]
  /\ UNCHANGED <<featureBuilders, builderMutex>>
  /\ ConcurrentFrame

\* Register, lines 32-33
RegisterStore(p) ==
  /\ procs[p].pc = "store"
  /\ featureBuilders' = [k \in DOMAIN featureBuilders \cup {procs[p].id} |->
                           IF k = procs[p].id THEN procs[p].buildFunc
                           ELSE featureBuilders[k]]
  /\ procs' = [procs EXCEPT ![p].pc = "unlock"]
  /\ UNCHANGED builderMutex
  /\ ConcurrentFrame

\* Register, line 27 (deferred)
RegisterUnlock(p) ==
  /\ procs[p].pc = "unlock"
  /\ builderMutex' = [builderMutex EXCEPT !.w = FALSE]
  /\ procs' = [procs EXCEPT ![p].pc = "done"]
  /\ UNCHANGED featureBuilders
  /\ ConcurrentFrame

\* BuildFeatures, line 38
BuildRLock(p) ==
  /\ procs[p].pc = "start"
  /\ MayRLock(builderMutex)
  /\ builderMutex' = [builderMutex EXCEPT !.r = @ + 1]
  /\ procs' = [procs EXCEPT ![p].pc = "sort", ![p].locked = featureBuilders]
  /\ UNCHANGED featureBuilders
  /\ ConcurrentFrame

\* BuildFeatures, lines 41-51
BuildSort(p) ==
  /\ procs[p].pc = "sort"
  /\ \E order \in MapRangeOrders(DOMAIN featureBuilders) :
       procs' = [procs EXCEPT
                   ![p].useMultiProcessContainer =
                       BoolValue(procs[p].dda.UseMultiProcessContainer),
                   ![p].sortedKeys =
                       getSortedFeatureIDs(featureBuilders, order,
                                           BoolValue(procs[p].dda.UseMultiProcessContainer)),
                   ![p].pc = "loop"]
  /\ UNCHANGED <<featureBuilders, builderMutex>>
  /\ ConcurrentFrame

\* BuildFeatures, one iteration of lines 53-64
BuildIterate(p) ==
  /\ procs[p].pc = "loop"
  /\ procs[p].idx <= Len(procs[p].sortedKeys)
  /\ procs[p].sortedKeys[procs[p].idx] \in DOMAIN featureBuilders
  /\ \E feat \in {NewFeature(procs[p].sortedKeys[procs[p].idx],
                            featureBuilders[procs[p].sortedKeys[procs[p].idx]])} :
       \E reqComponents \in {Configure(feat, procs[p].dda,
                                       procs[p].useMultiProcessContainer)} :
         procs' = [procs EXCEPT
                     ![p].useMultiProcessContainer =
                         UseMultiProcessContainerAfter(@, reqComponents),
                     ![p].output = OutputAfter(@, feat, reqComponents),
                     ![p].requiredComponents = RequiredComponentsAfter(@, reqComponents),
                     ![p].idx = @ + 1]
  /\ UNCHANGED <<featureBuilders, builderMutex>>
  /\ ConcurrentFrame

\* BuildFeatures, line 54 calling a nil constructor: the panic runs the
\* deferred RUnlock of line 39.
BuildNilConstructor(p) ==
  /\ procs[p].pc = "loop"
  /\ procs[p].idx <= Len(procs[p].sortedKeys)
  /\ procs[p].sortedKeys[procs[p].idx] \notin DOMAIN featureBuilders
  /\ builderMutex' = [builderMutex EXCEPT !.r = @ - 1]
  /\ procs' = [procs EXCEPT ![p].pc = "panic"]
  /\ UNCHANGED featureBuilders
  /\ ConcurrentFrame

\* BuildFeatures, lines 66 and 39 (deferred)
BuildReturn(p) ==
  /\ procs[p].pc = "loop"
  /\ procs[p].idx > Len(procs[p].sortedKeys)
  /\ builderMutex' = [builderMutex EXCEPT !.r = @ - 1]
  /\ procs' = [procs EXCEPT ![p].pc = "done"]
  /\ UNCHANGED featureBuilders
  /\ ConcurrentFrame

NextConcurrent ==
  \/ \E p \in Registrars : RegisterLock(p)
  \/ \E p \in Registrars : RegisterCheck(p)
  \/ \E p \in Registrars : RegisterStore(p)
  \/ \E p \in Registrars : RegisterUnlock(p)
  \/ \E p \in Builders : BuildRLock(p)
  \/ \E p \in Builders : BuildSort(p)
  \/ \E p \in Builders : BuildIterate(p)
  \/ \E p \in Builders : BuildNilConstructor(p)
  \/ \E p \in Builders : BuildReturn(p)

SpecConcurrent == InitConcurrent /\ [][NextConcurrent]_vars

\* ------------------------------------------------------------ merging
\* The requirements Merge is applied to: every requirement of the node agent,
\* every enabled state of the cluster agent, and a cluster checks runner that
\* is unspecified or disabled and privileged.
TriStates == {None, {TRUE}, {FALSE}}
MergeOperands ==
  {[Agent |-> [enabled |-> e, privileged |-> q],
    ClusterAgent |-> [enabled |-> f, privileged |-> FALSE],
    ClusterChecksRunner |-> c] :
     e \in TriStates, q \in BOOLEAN, f \in TriStates,
     c \in {Unspecified, [enabled |-> {FALSE}, privileged |-> TRUE]}}

InitMerge ==
  /\ DefaultingIdle /\ FactoryInit /\ V1Idle /\ ConcurrentIdle
  /\ operands \in MergeOperands \X MergeOperands \X MergeOperands
  /\ merged = <<>>

\* A.Merge(B), B.Merge(A) and B.Merge(C)
MergePairs ==
  /\ merged = <<>>
  /\ merged' = [step |-> 1,
                ab |-> Merge(operands[1], operands[2]),
                ba |-> Merge(operands[2], operands[1]),
                bc |-> Merge(operands[2], operands[3])]
  /\ UNCHANGED <<operands, dvars, fvars, ddaV1, cvars>>

\* (A.Merge(B)).Merge(C) and A.Merge(B.Merge(C))
MergeTriples ==
  /\ merged # <<>>
  /\ merged.step = 1
  /\ merged' = [step |-> 2, ab |-> merged.ab, ba |-> merged.ba, bc |-> merged.bc,
                left |-> Merge(merged.ab, operands[3]),
                right |-> Merge(operands[1], merged.bc)]
  /\ UNCHANGED <<operands, dvars, fvars, ddaV1, cvars>>

NextMerge == MergePairs \/ MergeTriples

SpecMerge == InitMerge /\ [][NextMerge]_vars



\* ------------------------------------------------------- fields of a tree
\* The shape of the spec tree: a leaf is a pointer (or sentinel) field holding
\* a value, a container is a map/slice/struct pointer that holds a value only
\* when it is not empty, a struct is an embedded struct, a ptr is a pointer to
\* a struct.
L == [k |-> "leaf"]
C == [k |-> "container"]
St(fields) == [k |-> "struct", f |-> fields]
Pt(fields) == [k |-> "ptr", f |-> fields]

ImageShape == Pt([Name |-> L, Tag |-> L, PullPolicy |-> L, PullSecrets |-> C])
RbacShape == Pt([Create |-> L])
NetworkPolicyShape == Pt([Create |-> L])
AgentShape ==
  St([Enabled |-> L, UseExtendedDaemonset |-> L, Image |-> ImageShape,
      NodeAgent |-> Pt([ContainerConfig |-> St([LogLevel |-> L, Resources |-> C,
                                                LivenessProbe |-> L, ReadinessProbe |-> L,
                                                HealthPort |-> L]),
                        CollectEvents |-> L, LeaderElection |-> L,
                        CriSocket |-> Pt([DockerSocketPath |-> L]),
                        Dogstatsd |-> Pt([DogstatsdOriginDetection |-> L,
                                          UnixDomainSocket |->
                                            Pt([Enabled |-> L, HostFilepath |-> L])]),
                        PodLabelsAsTags |-> C, PodAnnotationsAsTags |-> C, Tags |-> C]),
      Rbac |-> RbacShape,
      DeploymentStrategy |->
        Pt([UpdateStrategyType |-> L,
            RollingUpdate |-> St([MaxUnavailable |-> L, MaxPodSchedulerFailure |-> L,
                                  MaxParallelPodCreation |-> L,
                                  SlowStartIntervalDuration |-> L,
                                  SlowStartAdditiveIncrease |-> L]),
            Canary |-> L, ReconcileFrequency |-> L]),
      Apm |-> Pt([Enabled |-> L, HostPort |-> L,
                  ContainerConfig |-> St([LivenessProbe |-> L]),
                  UnixDomainSocket |-> Pt([Enabled |-> L, HostFilepath |-> L])]),
      SystemProbe |-> Pt([Enabled |-> L, EnableOOMKill |-> L, EnableTCPQueueLength |-> L,
                          BPFDebugEnabled |-> L, CollectDNSStats |-> L,
                          ConntrackEnabled |-> L, SecCompRootPath |-> L,
                          AppArmorProfileName |-> L, SecCompProfileName |-> L]),
      Security |-> Pt([Compliance |-> St([Enabled |-> L]),
                       Runtime |-> St([Enabled |-> L,
                                       SyscallMonitor |-> Pt([Enabled |-> L])])]),
      Process |-> Pt([Enabled |-> L, ProcessCollectionEnabled |-> L]),
      NetworkPolicy |-> NetworkPolicyShape])
FeaturesShape ==
  St([OrchestratorExplorer |-> Pt([Enabled |-> L, ClusterCheck |-> L,
                                   Scrubbing |-> Pt([Containers |-> L])]),
      KubeStateMetricsCore |-> Pt([Enabled |-> L, ClusterCheck |-> L]),
      PrometheusScrape |-> Pt([Enabled |-> L, ServiceEndpoints |-> L]),
      LogCollection |-> Pt([Enabled |-> L, LogsConfigContainerCollectAll |-> L,
                            ContainerCollectUsingFiles |-> L, ContainerLogsPath |-> L,
                            PodLogsPath |-> L, ContainerSymlinksPath |-> L,
                            TempStoragePath |-> L, OpenFilesLimit |-> L]),
      NetworkMonitoring |-> Pt([Enabled |-> L])])
ClusterAgentShape ==
  St([Enabled |-> L, Image |-> ImageShape,
      Config |-> Pt([ContainerConfig |-> St([LogLevel |-> L, Resources |-> C,
                                             HealthPort |-> L]),
                     Features |-> St([ExternalMetrics |-> Pt([Enabled |-> L, Port |-> L]),
                                      ClusterChecksEnabled |-> L, CollectEvents |-> L,
                                      AdmissionController |->
                                        Pt([Enabled |-> L, MutateUnlabelled |-> L,
                                            ServiceName |-> L])])]),
      CustomConfig |-> L, Rbac |-> RbacShape, NetworkPolicy |-> NetworkPolicyShape])
ClusterChecksRunnerShape ==
  St([Enabled |-> L, Image |-> ImageShape,
      ContainerConfig |-> Pt([LogLevel |-> L, LivenessProbe |-> L, ReadinessProbe |-> L,
                              HealthPort |-> L, Resources |-> C]),
      Rbac |-> RbacShape, NetworkPolicy |-> NetworkPolicyShape])
DatadogAgentSpecShape ==
  St([Credentials |-> Pt([UseSecretBackend |-> L]), Features |-> FeaturesShape,
      Agent |-> AgentShape, ClusterAgent |-> ClusterAgentShape,
      ClusterChecksRunner |-> ClusterChecksRunnerShape])

\* The fields set in tree x of shape sh, as <<path, value>> pairs.
RECURSIVE FieldsAt(_, _, _)
FieldsAt(path, sh, x) ==
  CASE sh.k = "leaf" -> IF x = None THEN {} ELSE {<<path, Deref(x)>>}
    [] sh.k = "container" ->
         IF x = None \/ x = {<<>>} THEN {} ELSE {<<path, Deref(x)>>}
    [] sh.k = "struct" ->
         UNION {FieldsAt(Append(path, g), sh.f[g], x[g]) : g \in DOMAIN sh.f}
    [] sh.k = "ptr" ->
         IF x = None THEN {}
         ELSE UNION {FieldsAt(Append(path, g), sh.f[g], Deref(x)[g]) : g \in DOMAIN sh.f}

Fields(spec) == FieldsAt(<<>>, DatadogAgentSpecShape, spec)
Paths(spec) == {l[1] : l \in Fields(spec)}
\* The value of the field at path in a tree, as a pointer: {} when unset.
FieldAt(spec, path) == {l[2] : l \in {m \in Fields(spec) : m[1] = path}}

NetworkMonitoringEnabled(spec) ==
  /\ spec.Features.NetworkMonitoring # None
  /\ BoolValue(Deref(spec.Features.NetworkMonitoring).Enabled)
OrchestratorExplorerEnabled(spec) ==
  /\ spec.Features.OrchestratorExplorer # None
  /\ BoolValue(Deref(spec.Features.OrchestratorExplorer).Enabled)

\* ------------------------------------------------------------------ claims
\* C1 (as claimed): when DefaultDatadogAgent returns, every field that was
\* unset before the call and is set after it is in the returned
\* DefaultOverride with the same value.
C1_ShadowComplete ==
  pc = "done" =>
    \A l \in Fields(dda) : l[1] \notin Paths(before) => l \in Fields(status)

\* C2 (as claimed): when DefaultDatadogAgent returns, every field of the
\* returned DefaultOverride was unset before the call and was assigned by it.
C2_ShadowExclusive ==
  pc = "done" =>
    \A l \in Fields(status) : l[1] \notin Paths(before) /\ l \in Fields(dda)

\* C3 (as claimed): a component defaulting function (DefaultFeatures and the
\* cluster agent, node agent and cluster checks runner ones) leaves every
\* field that was set before the call with the same value.
C3_UserFieldsKept ==
  [][(pc \in {"DefaultFeatures", "ClusterAgent", "Agent", "ClusterChecksRunner"})
     => (Fields(dda) \subseteq Fields(dda'))]_vars

\* C4 (as claimed): a second DefaultDatadogAgent call on the spec a first call
\* produced leaves every field of the spec unchanged.
C4_SpecIdempotent ==
  (pc = "done" /\ run >= 2) => Fields(dda) = Fields(before)

\* C5 (as claimed): the DefaultOverride returned by a second DefaultDatadogAgent
\* call on an already defaulted spec has no field set.
C5_ShadowIdempotent ==
  (pc = "done" /\ run >= 2) => Fields(status) = {}

\* C6 (as claimed): when Features.NetworkMonitoring.Enabled is true, once
\* FeatureOverride has returned Agent.SystemProbe.Enabled is true, every
\* system-probe default is applied and the shadow's Agent.SystemProbe.Enabled
\* is true.
C6_NetworkMonitoringForcesSystemProbe ==
  (pc = "DefaultFeatures" /\ NetworkMonitoringEnabled(before)) =>
    /\ dda.Agent.SystemProbe # None
    /\ \A g \in DOMAIN EmptySystemProbeSpec : Deref(dda.Agent.SystemProbe)[g] # None
    /\ BoolValue(Deref(dda.Agent.SystemProbe).Enabled)
    /\ dso.Agent.SystemProbe # None
    /\ BoolValue(Deref(dso.Agent.SystemProbe).Enabled)

\* C7 (as claimed): when Features.OrchestratorExplorer.Enabled is true, once
\* FeatureOverride has returned Agent.Process.Enabled is true in the spec and
\* in the shadow.
C7_OrchestratorExplorerForcesProcess ==
  (pc = "DefaultFeatures" /\ OrchestratorExplorerEnabled(before)) =>
    /\ dda.Agent.Process # None
    /\ BoolValue(Deref(dda.Agent.Process).Enabled)
    /\ dso.Agent.Process # None
    /\ BoolValue(Deref(dso.Agent.Process).Enabled)

\* What FeatureOverride recorded at the start of the current call.
ForcedByFeatureOverride == FeatureOverride(before, EmptyDatadogAgentSpec)

\* C8 (as claimed): when FeatureOverride forced Agent.SystemProbe.Enabled or
\* Agent.Process.Enabled in a DefaultDatadogAgent call, the DefaultOverride that
\* call returns carries Enabled = true for it.
C8_ForcingVisibleInStatus ==
  pc = "done" =>
    /\ ForcedByFeatureOverride.dso.Agent.SystemProbe # None =>
         FieldAt(status, <<"Agent", "SystemProbe", "Enabled">>) = {TRUE}
    /\ ForcedByFeatureOverride.dso.Agent.Process # None =>
         FieldAt(status, <<"Agent", "Process", "Enabled">>) = {TRUE}

\* C9 (as claimed): no DefaultDatadogAgent or FeatureOverride call dereferences
\* an absent subtree.
C9_NoNilDereference == pc # "panic"

\* The Enabled flags of a tree that are true.
EnabledTrue(spec) ==
  {l[1] : l \in {m \in Fields(spec) : m[1][Len(m[1])] = "Enabled" /\ m[2] = TRUE}}

\* C10: a FeatureOverride call leaves Agent.SystemProbe, in the spec and in the
\* shadow, as it was unless Features.NetworkMonitoring.Enabled is true, leaves
\* Agent.Process as it was unless Features.OrchestratorExplorer.Enabled is
\* true, and leaves every Enabled flag that was true at true.
C10_ForcingOnlyAdds ==
  [][(pc = "FeatureOverride") =>
       ( /\ ~NetworkMonitoringEnabled(dda) =>
              /\ dda'.Agent.SystemProbe = dda.Agent.SystemProbe
              /\ dso'.Agent.SystemProbe = dso.Agent.SystemProbe
         /\ ~OrchestratorExplorerEnabled(dda) =>
              /\ dda'.Agent.Process = dda.Agent.Process
              /\ dso'.Agent.Process = dso.Agent.Process
         /\ EnabledTrue(dda) \subseteq EnabledTrue(dda') )]_vars

\* C10 witness: FeatureOverride has returned on a spec with a system probe that
\* is present and disabled and no network monitoring, and has forced the
\* process agent for the orchestrator explorer.
C10_Witness ==
  /\ pc = "DefaultFeatures"
  /\ ~NetworkMonitoringEnabled(before)
  /\ before.Agent.SystemProbe = Off(EmptySystemProbeSpec)
  /\ dda.Agent.SystemProbe = before.Agent.SystemProbe
  /\ OrchestratorExplorerEnabled(before)
  /\ before.Agent.Process = Off(EmptyProcessSpec)
  /\ BoolValue(Deref(dda.Agent.Process).Enabled)

GuardedSubtrees ==
  {<<"Agent">>, <<"ClusterAgent">>, <<"Agent", "Apm">>,
   <<"Agent", "Apm", "UnixDomainSocket">>, <<"Agent", "SystemProbe">>,
   <<"Agent", "Process">>, <<"Features", "LogCollection">>,
   <<"Features", "PrometheusScrape">>,
   <<"ClusterAgent", "Config", "Features", "ExternalMetrics">>,
   <<"ClusterAgent", "Config", "Features", "AdmissionController">>}
\* The leaves of a set of leaves that lie strictly below path sub, its Enabled
\* flag excepted.
ChildrenBelow(leaves, sub) ==
  {l \in leaves : /\ Len(l[1]) > Len(sub)
                  /\ SubSeq(l[1], 1, Len(sub)) = sub
                  /\ l[1] # Append(sub, "Enabled")}

\* C12 (as claimed): a component defaulting call that leaves a guarded
\* subtree with Enabled false sets no field below that subtree other than
\* Enabled, neither in the spec nor in the override it returns.
C12_EnabledGuard ==
  [][(pc \in {"DefaultFeatures", "ClusterAgent", "Agent", "ClusterChecksRunner"}
      /\ pc' # "panic") =>
     (\A sub \in GuardedSubtrees :
        FieldAt(dda', Append(sub, "Enabled")) = {FALSE} =>
          /\ ChildrenBelow(Fields(dda') \ Fields(dda), sub) = {}
          /\ ChildrenBelow(Fields(dso') \ Fields(dso), sub) = {})]_vars

\* The image tag the node agent runs after image defaulting, "-jmx" stripped.
ResolvedAgentTag(spec) == TrimSuffixJmx(Deref(Deref(spec.Agent.Image).Tag))
CriSocketGated(spec) ==
  \/ ResolvedAgentTag(spec) = "latest"
  \/ IsAboveMinVersion(ResolvedAgentTag(spec), "7.27.0-0")

\* C13 (as claimed): node-agent defaulting of an enabled agent whose CriSocket
\* is unset sets CriSocket.DockerSocketPath to /var/run/docker.sock, in the
\* spec and in the override, exactly when the resolved image tag is neither
\* "latest" nor at or above 7.27.0; otherwise no CriSocket appears in either.
C13_CriSocketVersionGate ==
  [][(/\ pc = "Agent" /\ pc' = "ClusterChecksRunner"
      /\ BoolValue(dda'.Agent.Enabled)
      /\ FieldAt(dda, <<"Agent", "NodeAgent", "CriSocket", "DockerSocketPath">>) = {}) =>
     (IF CriSocketGated(dda')
      THEN /\ Deref(dda'.Agent.NodeAgent).CriSocket = None
           /\ FieldAt(dso', <<"Agent", "NodeAgent", "CriSocket", "DockerSocketPath">>) = {}
      ELSE /\ FieldAt(dda', <<"Agent", "NodeAgent", "CriSocket", "DockerSocketPath">>)
                = {defaultDockerSocketPath}
           /\ FieldAt(dso', <<"Agent", "NodeAgent", "CriSocket", "DockerSocketPath">>)
                = {defaultDockerSocketPath})]_vars

\* ------------------------------------------------- claims on the factory
\* BuildFeatures was asked for multi-process mode by the desired spec.
MultiProcessRequested == BoolValue(ddaV2.UseMultiProcessContainer)
IsPrivilegedID(id) == Contains(privilegedFeatures, id)

\* C14: a Register call on a registered identifier returns an error and
\* leaves the registry unchanged; on an unregistered identifier it returns
\* nil and stores the constructor under it; a stored constructor never
\* changes, and BuildFeatures builds each feature with the stored constructor.
C14_DuplicateRegistrationRejected ==
  /\ [][/\ (registered' # registered /\ registered'.made) =>
             (IF registered'.id \in DOMAIN featureBuilders
              THEN registered'.err /\ featureBuilders' = featureBuilders
              ELSE /\ ~registered'.err
                   /\ DOMAIN featureBuilders' = DOMAIN featureBuilders \cup {registered'.id}
                   /\ featureBuilders'[registered'.id] = registered'.buildFunc)
        /\ \A id \in DOMAIN featureBuilders :
             id \in DOMAIN featureBuilders' /\ featureBuilders'[id] = featureBuilders[id]]_vars
  /\ [](\A i \in DOMAIN output : output[i].build = featureBuilders[output[i].id])

\* C14 witness: an identifier was registered again with another constructor
\* and the call returned an error.
C14_Witness ==
  /\ registered.made /\ registered.err
  /\ featureBuilders[registered.id] # registered.buildFunc

\* C15: in a BuildFeatures call that was asked for multi-process mode, every
\* privileged identifier of the resolution order comes after every other
\* identifier, and the order does not change while the loop runs, also when
\* the flag is cleared.
C15_PrivilegedBlockLast ==
  /\ []((fpc = "loop" /\ MultiProcessRequested) =>
          \A i, j \in DOMAIN sortedKeys :
            (IsPrivilegedID(sortedKeys[i]) /\ ~IsPrivilegedID(sortedKeys[j])) => j < i)
  /\ [][(fpc = "loop" /\ fpc' = "loop") => sortedKeys' = sortedKeys]_vars

\* C15 witness: the flag was cleared by a privileged feature and the loop goes
\* on, in an order where dogstatsd was visited before the privileged cspm.
C15_Witness ==
  /\ fpc = "loop" /\ MultiProcessRequested /\ ~useMultiProcessContainer
  /\ idx <= Len(sortedKeys)
  /\ Contains(sortedKeys, DogstatsdIDType)
  /\ CSPMIDType \in DOMAIN featureBuilders

\* s is in strictly ascending identifier order.
StrictlyAscending(s) == \A i, j \in DOMAIN s : i < j => IDLess(s[i], s[j])
\* C16 (as claimed): the resolution order lists the registered identifiers,
\* each once; without multi-process mode in strictly ascending order; with
\* it, the non-privileged ones ascending, then the privileged ones ascending.
C16_SortedResolutionOrder ==
  (fpc = "loop") =>
    /\ {sortedKeys[i] : i \in DOMAIN sortedKeys} = DOMAIN featureBuilders
    /\ Len(sortedKeys) = Cardinality(DOMAIN featureBuilders)
    /\ IF MultiProcessRequested
       THEN /\ \A i, j \in DOMAIN sortedKeys :
                 (IsPrivilegedID(sortedKeys[i]) /\ ~IsPrivilegedID(sortedKeys[j])) => j < i
            /\ StrictlyAscending(SelectSeq(sortedKeys, LAMBDA k : ~IsPrivilegedID(k)))
            /\ StrictlyAscending(SelectSeq(sortedKeys, IsPrivilegedID))
       ELSE StrictlyAscending(sortedKeys)

\* C17: two BuildFeatures calls on the same registry with the same
\* multi-process request iterate in the same order, and with the same desired
\* spec return the same features in the same order.
C17_OrderingDeterminism ==
  (lastCall.made /\ prevCall.made /\ lastCall.registry = prevCall.registry) =>
    /\ (BoolValue(lastCall.ddaV2.UseMultiProcessContainer)
          = BoolValue(prevCall.ddaV2.UseMultiProcessContainer))
         => lastCall.order = prevCall.order
    /\ (lastCall.ddaV2 = prevCall.ddaV2) => lastCall.output = prevCall.output

\* C17 witness: two calls with the same desired spec returned, on a registry
\* of at least three identifiers, more than one feature.
C17_Witness ==
  /\ lastCall.made /\ prevCall.made
  /\ lastCall.registry = prevCall.registry
  /\ lastCall.ddaV2 = prevCall.ddaV2
  /\ Len(lastCall.order) >= 3
  /\ Len(lastCall.output) >= 2

\* C18 (as claimed): after each iteration of BuildFeatures, if the accumulated
\* node-agent requirement is enabled and privileged then the multi-process
\* flag is off.
C18_DowngradeOnMergedRequirement ==
  (fpc = "loop" /\ IsEnabled(requiredComponents.Agent)
     /\ IsPrivileged(requiredComponents.Agent))
    => ~useMultiProcessContainer

\* C19: within a BuildFeatures call the flag never goes from off to on, and
\* it is off throughout a call whose desired spec did not ask for
\* multi-process mode.
C19_FlagMonotone ==
  /\ [][(fpc = "loop" /\ fpc' = "loop" /\ ~useMultiProcessContainer)
          => ~useMultiProcessContainer']_vars
  /\ []((fpc = "loop" /\ ~MultiProcessRequested) => ~useMultiProcessContainer)

\* C19 witness: the flag was cleared in a call that asked for multi-process
\* mode, and a feature was configured after that with the flag off.
C19_Witness ==
  /\ fpc = "loop" /\ MultiProcessRequested
  /\ \E i \in DOMAIN configured :
       /\ ~configured[i].flag
       /\ i > 1 /\ configured[i - 1].flag

\* The requirement the i-th Configure call of the running BuildFeatures call
\* answered.
ConfigureResult(i) ==
  Configure(NewFeature(configured[i].id, featureBuilders[configured[i].id]), ddaV2,
            configured[i].flag)
RECURSIVE MergedUpTo(_)
MergedUpTo(n) ==
  IF n = 0 THEN NoRequirement ELSE Merge(MergedUpTo(n - 1), ConfigureResult(n))
RECURSIVE EnabledUpTo(_)
EnabledUpTo(n) ==
  IF n = 0 THEN <<>>
  ELSE IF IsConfigured(ConfigureResult(n))
       THEN Append(EnabledUpTo(n - 1),
                   NewFeature(configured[n].id, featureBuilders[configured[n].id]))
       ELSE EnabledUpTo(n - 1)

\* C20: the features to return are, in resolution order, the features
\* configured so far whose own requirement has a component configured; every
\* feature of the order so far was configured, and the accumulator is the
\* merge of all their requirements.
C20_EnabledFeatureList ==
  (fpc = "loop") =>
    /\ Len(configured) = idx - 1
    /\ \A i \in DOMAIN configured : configured[i].id = sortedKeys[i]
    /\ output = EnabledUpTo(Len(configured))
    /\ requiredComponents = MergedUpTo(Len(configured))

\* C20 witness: a feature that left every component unspecified but asked for
\* privileges was configured, is not in the output, and its privilege is in
\* the accumulator, next to a returned feature.
C20_Witness ==
  /\ fpc = "loop"
  /\ \E i \in DOMAIN configured :
       /\ ~IsConfigured(ConfigureResult(i))
       /\ IsPrivileged(ConfigureResult(i).Agent)
       /\ \A k \in DOMAIN output : output[k].id # configured[i].id
  /\ IsPrivileged(requiredComponents.Agent)
  /\ output # <<>>

\* ------------------------------------- claims on the defaulted spec (II)
\* C27 (as claimed): in the spec a DefaultDatadogAgent call leaves, if
\* Features.OrchestratorExplorer.Enabled is true then Agent.Process.Enabled is
\* true, and if Features.NetworkMonitoring.Enabled is true then
\* Agent.SystemProbe.Enabled is true.
C27_CouplingInEffectiveSpec ==
  (pc = "done") =>
    /\ (FieldAt(dda, <<"Features", "OrchestratorExplorer", "Enabled">>) = {TRUE})
         => (FieldAt(dda, <<"Agent", "Process", "Enabled">>) = {TRUE})
    /\ (FieldAt(dda, <<"Features", "NetworkMonitoring", "Enabled">>) = {TRUE})
         => (FieldAt(dda, <<"Agent", "SystemProbe", "Enabled">>) = {TRUE})

\* C28 (as claimed): in the spec a DefaultDatadogAgent call leaves, an
\* OrchestratorExplorer.ClusterCheck or KubeStateMetricsCore.ClusterCheck that
\* the call filled in equals ClusterChecksRunner.Enabled of that spec.
C28_ClusterCheckFollowsRunner ==
  (pc = "done") =>
    \A p \in {<<"Features", "OrchestratorExplorer", "ClusterCheck">>,
              <<"Features", "KubeStateMetricsCore", "ClusterCheck">>} :
      (FieldAt(before, p) = {} /\ FieldAt(dda, p) # {})
        => FieldAt(dda, p) = FieldAt(dda, <<"ClusterChecksRunner", "Enabled">>)

\* ------------------------------------------- claims on the factory (II)
\* C26 (as claimed): the sequence BuildFeatures iterates holds each registered
\* identifier once and no other identifier, so no lookup in the loop finds a
\* nil constructor.
C26_OrderIsPermutation ==
  /\ fpc # "panic"
  /\ (fpc = "loop") =>
       /\ \A i \in DOMAIN sortedKeys : sortedKeys[i] \in DOMAIN featureBuilders
       /\ \A id \in DOMAIN featureBuilders :
            Cardinality({i \in DOMAIN sortedKeys : sortedKeys[i] = id}) = 1

\* C29: the flag a feature's Configure is called with is true exactly when
\* the desired spec asked for multi-process mode and no feature configured
\* before it in the call returned a node-agent requirement that is enabled
\* and privileged.
C29_FlagSeenByFeature ==
  (fpc = "loop") =>
    \A i \in DOMAIN configured :
      configured[i].flag <=>
        (MultiProcessRequested
           /\ \A j \in 1..(i - 1) :
                ~shouldDisableMultiProcessContainer(ConfigureResult(j)))

\* C29 witness: the feature whose requirement is enabled and privileged was
\* configured with the flag on, after a feature that asked for privileges
\* only, and the feature after it with the flag off.
C29_Witness ==
  /\ fpc = "loop"
  /\ \E i \in DOMAIN configured :
       /\ configured[i].flag
       /\ shouldDisableMultiProcessContainer(ConfigureResult(i))
       /\ i + 1 \in DOMAIN configured /\ ~configured[i + 1].flag
  /\ \E k \in DOMAIN configured :
       /\ configured[k].flag
       /\ IsPrivileged(ConfigureResult(k).Agent) /\ ~IsEnabled(ConfigureResult(k).Agent)

\* The requirement the i-th ConfigureV1 call of the running BuildFeaturesV1
\* call answered.
ConfigureV1Result(i) ==
  ConfigureV1(NewFeature(configured[i].id, featureBuilders[configured[i].id]), ddaV1)
RECURSIVE MergedV1UpTo(_)
MergedV1UpTo(n) ==
  IF n = 0 THEN NoRequirement ELSE Merge(MergedV1UpTo(n - 1), ConfigureV1Result(n))
RECURSIVE EnabledV1UpTo(_)
EnabledV1UpTo(n) ==
  IF n = 0 THEN <<>>
  ELSE IF \E k \in ComponentKinds : ConfigureV1Result(n)[k].enabled = {TRUE}
       THEN Append(EnabledV1UpTo(n - 1),
                   NewFeature(configured[n].id, featureBuilders[configured[n].id]))
       ELSE EnabledV1UpTo(n - 1)

\* C21: BuildFeaturesV1 iterates the registered identifiers, each once, in
\* ascending order whatever the kind, without the multi-process flag; the
\* features to return are those configured so far whose own result has a
\* component enabled, in that order, and the accumulator is the merge of every
\* result.
C21_LegacyEntryPoint ==
  (fpc = "loopV1") =>
    /\ {sortedKeys[i] : i \in DOMAIN sortedKeys} = DOMAIN featureBuilders
    /\ StrictlyAscending(sortedKeys)
    /\ ~useMultiProcessContainer
    /\ Len(configured) = idx - 1
    /\ \A i \in DOMAIN configured : configured[i].id = sortedKeys[i] /\ ~configured[i].flag
    /\ output = EnabledV1UpTo(Len(configured))
    /\ requiredComponents = MergedV1UpTo(Len(configured))

\* C21 witness: BuildFeaturesV1 is about to return; a privileged identifier
\* was iterated before a non-privileged one, a feature whose result is
\* explicitly disabled is not returned and another feature is.
C21_Witness ==
  /\ fpc = "loopV1" /\ idx > Len(sortedKeys)
  /\ \E i, j \in DOMAIN sortedKeys :
       i < j /\ IsPrivilegedID(sortedKeys[i]) /\ ~IsPrivilegedID(sortedKeys[j])
  /\ \E i \in DOMAIN configured :
       /\ IsConfigured(ConfigureV1Result(i))
       /\ \A k \in DOMAIN output : output[k].id # configured[i].id
  /\ output # <<>>

\* Every mark of the requirement a is still in the requirement b.
MarksKept(a, b) ==
  \A k \in ComponentKinds :
    /\ IsEnabled(a[k]) => IsEnabled(b[k])
    /\ IsPrivileged(a[k]) => IsPrivileged(b[k])

\* C23: a component the accumulator of BuildFeatures or BuildFeaturesV1 has
\* enabled, or privileged, is still enabled, respectively privileged, after
\* every later iteration of the call and in the value BuildFeatures returns.
C23_AccumulatorNeverUnmarks ==
  [][/\ (fpc \in {"loop", "loopV1"} /\ fpc' = fpc)
          => MarksKept(requiredComponents, requiredComponents')
     /\ (fpc = "loop" /\ fpc' = "idle")
          => MarksKept(requiredComponents, lastCall'.requiredComponents)]_vars

\* C23 witness: a feature answered an explicit false for the node agent after
\* another had enabled it, and the accumulator still has it enabled.
C23_Witness ==
  /\ fpc = "loop"
  /\ \E i, j \in DOMAIN configured :
       /\ i < j
       /\ ConfigureResult(i).Agent.enabled = {TRUE}
       /\ ConfigureResult(j).Agent.enabled = {FALSE}
  /\ IsEnabled(requiredComponents.Agent)

\* ------------------------------------------------------ claims on Merge
\* C22: Merge(A, B) = Merge(B, A) and Merge(Merge(A, B), C) =
\* Merge(A, Merge(B, C)); for every component the merged enabled is true if a
\* side is true, false if none is true and a side is false, unspecified if
\* both are unspecified, and the merged privileged is the or of both sides.
C22_MergeAssociativeCommutative ==
  (merged # <<>>) =>
    /\ merged.ab = merged.ba
    /\ (merged.step = 2) => (merged.left = merged.right)
    /\ \A k \in ComponentKinds :
         /\ (merged.ab[k].enabled = {TRUE})
              <=> ({TRUE} \in {operands[1][k].enabled, operands[2][k].enabled})
         /\ (merged.ab[k].enabled = None)
              <=> ({operands[1][k].enabled, operands[2][k].enabled} = {None})
         /\ merged.ab[k].privileged
              <=> (operands[1][k].privileged \/ operands[2][k].privileged)

\* C22 witness: three different requirements were merged both ways, the first
\* disabling the node agent, the second enabling it, the third privileged.
C22_Witness ==
  /\ merged # <<>> /\ merged.step = 2
  /\ operands[1].Agent.enabled = {FALSE}
  /\ operands[2].Agent.enabled = {TRUE}
  /\ operands[3].Agent = [enabled |-> None, privileged |-> TRUE]
  /\ operands[1].ClusterAgent.enabled = None /\ operands[3].ClusterAgent.enabled = {FALSE}
  /\ merged.left.Agent = [enabled |-> {TRUE}, privileged |-> TRUE]

\* ------------------------------------------- claims on concurrent callers
\* The resolution order of a BuildFeatures call run alone on a registry.
OrderAlone(builders, d) ==
  getSortedFeatureIDs(builders, Ascending(DOMAIN builders),
                      BoolValue(d.UseMultiProcessContainer))
\* One iteration of a BuildFeatures call run alone.
IterateAlone(prev, feat, reqComponents) ==
  [useMultiProcessContainer |->
     UseMultiProcessContainerAfter(prev.useMultiProcessContainer, reqComponents),
   output |-> OutputAfter(prev.output, feat, reqComponents),
   requiredComponents |-> RequiredComponentsAfter(prev.requiredComponents, reqComponents)]
ConfigureAlone(prev, feat, d) ==
  IterateAlone(prev, feat, Configure(feat, d, prev.useMultiProcessContainer))
\* The locals of a BuildFeatures call run alone on a registry, after n
\* iterations.
RECURSIVE LocalsAlone(_, _, _)
LocalsAlone(builders, d, n) ==
  IF n = 0
  THEN [useMultiProcessContainer |-> BoolValue(d.UseMultiProcessContainer),
        output |-> <<>>, requiredComponents |-> NoRequirement]
  ELSE ConfigureAlone(LocalsAlone(builders, d, n - 1),
                      NewFeature(OrderAlone(builders, d)[n],
                                 builders[OrderAlone(builders, d)[n]]), d)
LocalsOf(b) ==
  [useMultiProcessContainer |-> b.useMultiProcessContainer, output |-> b.output,
   requiredComponents |-> b.requiredComponents]
HoldsRLock(b) == b.pc \in {"sort", "loop"}
HoldsLock(r) == r.pc \in {"check", "store", "unlock"}

\* C24: while a BuildFeatures call is between its RLock and its return the
\* registry is the one it locked and no Register call is inside; the lock
\* counts the calls inside; and at every iteration, at its return and at a
\* panic, the order and the locals of a call are those of the call run alone
\* on the registry it locked.
C24_RegistryIsolation ==
  /\ builderMutex.r = Cardinality({p \in DOMAIN procs \cap Builders : HoldsRLock(procs[p])})
  /\ \A p \in DOMAIN procs \cap Builders :
       /\ HoldsRLock(procs[p]) =>
            /\ featureBuilders = procs[p].locked
            /\ \A q \in Registrars : ~HoldsLock(procs[q])
       /\ (procs[p].pc \in {"loop", "done", "panic"}) =>
            /\ procs[p].sortedKeys = OrderAlone(procs[p].locked, procs[p].dda)
            /\ LocalsOf(procs[p])
                 = LocalsAlone(procs[p].locked, procs[p].dda, procs[p].idx - 1)
       /\ (procs[p].pc = "done") => procs[p].idx = Len(procs[p].sortedKeys) + 1
       /\ (procs[p].pc = "panic") =>
            procs[p].sortedKeys[procs[p].idx] \notin DOMAIN procs[p].locked

\* C24 witness: both BuildFeatures calls are inside their loops at the same
\* time, on a registry a Register call had extended, with different
\* accumulators, while the other Register call waits for the lock.
C24_Witness ==
  /\ procs # <<>>
  /\ builderMutex.r = 2
  /\ \A p \in Builders : procs[p].pc = "loop" /\ procs[p].idx > 2
  /\ procs["build1"].requiredComponents # procs["build2"].requiredComponents
  /\ procs["build1"].locked # registryAtStart
  /\ \E q \in Registrars : procs[q].pc = "start"

\* The Register call q has returned (or is about to release the lock).
Returned(r) == r.pc \in {"unlock", "done"}

\* C30: at most one Register call is between its presence check and its
\* unlock; a call that returned nil had an unregistered identifier and its
\* constructor is the one stored; of the calls for one identifier at most one
\* returned nil; a call that returned the error had an identifier registered
\* at the start or by another call that returned nil; no entry of the
\* starting registry changes.
C30_ConcurrentRegistration ==
  /\ Cardinality({q \in DOMAIN procs \cap Registrars : HoldsLock(procs[q])}) <= 1
  /\ \A k \in DOMAIN registryAtStart :
       k \in DOMAIN featureBuilders /\ featureBuilders[k] = registryAtStart[k]
  /\ \A q \in DOMAIN procs \cap Registrars :
       Returned(procs[q]) =>
         IF procs[q].err
         THEN \/ procs[q].id \in DOMAIN registryAtStart
              \/ \E o \in Registrars \ {q} :
                   /\ procs[o].id = procs[q].id
                   /\ Returned(procs[o]) /\ ~procs[o].err
         ELSE /\ procs[q].id \notin DOMAIN registryAtStart
              /\ procs[q].id \in DOMAIN featureBuilders
              /\ featureBuilders[procs[q].id] = procs[q].buildFunc
              /\ \A o \in Registrars \ {q} :
                   (procs[o].id = procs[q].id /\ Returned(procs[o])) => procs[o].err

\* C30 witness: two Register calls for the same unregistered identifier with
\* different constructors have returned, one nil and one the error.
C30_Witness ==
  /\ procs # <<>>
  /\ \A q \in Registrars : procs[q].pc = "done"
  /\ procs["register1"].id = procs["register2"].id
  /\ procs["register1"].buildFunc # procs["register2"].buildFunc
  /\ procs["register1"].id \notin DOMAIN registryAtStart
  /\ procs["register1"].err # procs["register2"].err
====
